---- MODULE Spec2Model ----
(***************************************************************************)
(* Query-processing core of News-Restructure: query routing, MongoDB       *)
(* filter generation, adaptive strategy selection and reranking.           *)
(*                                                                         *)
(* Strings that the code trims or case-folds are sequences of              *)
(* one-character strings; enumerated values (strategies, sentiment         *)
(* classifications, error kinds) are plain strings.  Scores are exact      *)
(* rationals held as integers in units of 1/ScoreOne.                      *)
(***************************************************************************)
EXTENDS Integers, Sequences, FiniteSets, TLC

(***************************************************************************)
(* Bounds of the model.                                                    *)
(***************************************************************************)
MaxThreshold == 2
MaxTopK == 2
MaxRerankLen == 3
MaxFilterCalls == 3

\* Largest retry budget the LLM client is constructed with.
MaxRetries == 4

(***************************************************************************)
(* Python values.                                                          *)
(***************************************************************************)
NoneVal == "<None>"

\* Python truthiness of an Optional[str]: None and "" are falsy.
Truthy(s) == s # NoneVal /\ s # ""

Min(a, b) == IF a <= b THEN a ELSE b

Range(s) == {s[i] : i \in DOMAIN s}

\* s[:n]
Take(s, n) == SubSeq(s, 1, Min(n, Len(s)))

RECURSIVE SelectIn(_, _)
\* [r for r in s if r in S]
SelectIn(s, S) ==
    IF s = <<>> THEN <<>>
    ELSE IF Head(s) \in S THEN <<Head(s)>> \o SelectIn(Tail(s), S)
         ELSE SelectIn(Tail(s), S)

(***************************************************************************)
(* Character strings: str.lower, str.upper, str.strip.                     *)
(***************************************************************************)
LowerChars ==
    <<"a", "b", "c", "d", "e", "f", "g", "h", "i", "j", "k", "l", "m",
      "n", "o", "p", "q", "r", "s", "t", "u", "v", "w", "x", "y", "z">>
UpperChars ==
    <<"A", "B", "C", "D", "E", "F", "G", "H", "I", "J", "K", "L", "M",
      "N", "O", "P", "Q", "R", "S", "T", "U", "V", "W", "X", "Y", "Z">>

LowerChar(c) ==
    IF \E i \in DOMAIN UpperChars : UpperChars[i] = c
    THEN LowerChars[CHOOSE i \in DOMAIN UpperChars : UpperChars[i] = c]
    ELSE c

UpperChar(c) ==
    IF \E i \in DOMAIN LowerChars : LowerChars[i] = c
    THEN UpperChars[CHOOSE i \in DOMAIN LowerChars : LowerChars[i] = c]
    ELSE c

Lower(s) == [i \in DOMAIN s |-> LowerChar(s[i])]
Upper(s) == [i \in DOMAIN s |-> UpperChar(s[i])]

RECURSIVE LStrip(_)
LStrip(s) == IF s # <<>> /\ Head(s) = " " THEN LStrip(Tail(s)) ELSE s

RECURSIVE RStrip(_)
RStrip(s) ==
    IF s # <<>> /\ s[Len(s)] = " " THEN RStrip(SubSeq(s, 1, Len(s) - 1)) ELSE s

Strip(s) == RStrip(LStrip(s))

\* Names used by the stored articles and by the router's output.
SymTS == <<"T", "S">>
SymHB == <<"H", "B">>
CoTs == <<"T", "s">>
CoHb == <<"H", "b">>
SecIt == <<"I", "t">>
SecBk == <<"B", "k">>
RegRb == <<"R", "b">>
RegSb == <<"S", "b">>
FinancialNews ==
    <<"f", "i", "n", "a", "n", "c", "i", "a", "l", " ", "n", "e", "w", "s">>

(***************************************************************************)
(* Enumerations.                                                           *)
(***************************************************************************)
QueryIntent ==
    {"DIRECT_ENTITY", "SECTOR_WIDE", "REGULATORY", "SENTIMENT_DRIVEN",
     "CROSS_IMPACT", "SEMANTIC_SEARCH", "TEMPORAL"}

valid_sentiments == {"Bullish", "Bearish", "Neutral"}

(***************************************************************************)
(* Stored articles.  An article is what ArticleRepository._to_document     *)
(* keeps of a NewsArticle: entities.Companies / Sectors / Regulators,      *)
(* impacted_stocks[].symbol, sentiment.classification and                  *)
(* sentiment.signal_strength, cross_impacts; dist is the cosine distance   *)
(* of its embedding to the query embedding, in tenths.                     *)
(***************************************************************************)
ArticleIds == {"a1", "a2", "a3", "a4"}

IdOrder == <<"a1", "a2", "a3", "a4">>

IdRank(id) == CHOOSE i \in DOMAIN IdOrder : IdOrder[i] = id

Pool ==
    [id \in ArticleIds |->
        CASE id = "a1" ->
               [companies |-> <<CoTs>>, symbols |-> <<SymTS>>,
                sectors |-> <<SecIt>>, regulators |-> <<>>,
                sentiment |-> "Bullish", signal_strength |-> 100,
                cross_impacts |-> TRUE, dist |-> 0]
          [] id = "a2" ->
               [companies |-> <<CoHb>>, symbols |-> <<SymHB>>,
                sectors |-> <<SecBk>>, regulators |-> <<RegRb>>,
                sentiment |-> "Bearish", signal_strength |-> 50,
                cross_impacts |-> FALSE, dist |-> 5]
          [] id = "a3" ->
               [companies |-> <<CoTs, CoHb>>, symbols |-> <<SymTS, SymHB>>,
                sectors |-> <<SecBk, SecIt>>, regulators |-> <<RegRb, RegSb>>,
                sentiment |-> NoneVal, signal_strength |-> 0,
                cross_impacts |-> FALSE, dist |-> 5]
          [] OTHER ->
               [companies |-> <<>>, symbols |-> <<>>,
                sectors |-> <<SecBk>>, regulators |-> <<>>,
                sentiment |-> "Bullish", signal_strength |-> 0,
                cross_impacts |-> FALSE, dist |-> 12]]

RECURSIVE InIdOrder(_, _)
\* The ids of S in the store's natural (insertion) order.
InIdOrder(S, i) ==
    IF i > Len(IdOrder) THEN <<>>
    ELSE IF IdOrder[i] \in S THEN <<IdOrder[i]>> \o InIdOrder(S, i + 1)
         ELSE InIdOrder(S, i + 1)

(***************************************************************************)
(* MongoDB filters.  A filter is a Python dict: a function from field      *)
(* paths to clauses.  A clause is an equality on a value, {"$in": list},   *)
(* or (under the key "$and") a list of sub-filters.                        *)
(***************************************************************************)
KSymbol == "impacted_stocks.symbol"
KCompanies == "entities.Companies"
KSectors == "entities.Sectors"
KRegulators == "entities.Regulators"
KSentiment == "sentiment.classification"
KAnd == "$and"
KId == "id"

EmptyFilter == <<>>

EqClause(v) == [op |-> "eq", vals |-> <<v>>, subs |-> <<>>]
InClause(list) == [op |-> "in", vals |-> list, subs |-> <<>>]
AndClause(filters) == [op |-> "and", vals |-> <<>>, subs |-> filters]

\* {key: clause}
Dict1(key, clause) == [k \in {key} |-> clause]

\* f[key] = clause
DictSet(f, key, clause) ==
    [k \in (DOMAIN f) \cup {key} |-> IF k = key THEN clause ELSE f[k]]

\* The values a document holds under a field path.
FieldValues(id, key) ==
    CASE key = KSymbol -> Range(Pool[id].symbols)
      [] key = KCompanies -> Range(Pool[id].companies)
      [] key = KSectors -> Range(Pool[id].sectors)
      [] key = KRegulators -> Range(Pool[id].regulators)
      [] key = KSentiment ->
           IF Pool[id].sentiment = NoneVal THEN {} ELSE {Pool[id].sentiment}
      [] key = KId -> {id}
      [] OTHER -> {}

MatchesClause(id, key, c) ==
    CASE c.op = "eq" -> c.vals[1] \in FieldValues(id, key)
      [] c.op = "in" -> FieldValues(id, key) \cap Range(c.vals) # {}
      [] OTHER -> FALSE

\* A filter without "$and".
MatchesFlat(id, f) == \A k \in DOMAIN f : MatchesClause(id, k, f[k])

\* MongoDB's matching of a document against a filter: every top-level
\* key must hold; "$and" holds when each of its sub-filters holds.
Matches(id, f) ==
    \A k \in DOMAIN f :
        IF k = KAnd
        THEN \A i \in DOMAIN f[k].subs : MatchesFlat(id, f[k].subs[i])
        ELSE MatchesClause(id, k, f[k])

\* collection.count_documents(f)
count_documents(docs, f) == Cardinality({id \in docs : Matches(id, f)})

\* [doc["id"] for doc in collection.find(f, {"id": 1})]
find_ids(docs, f) == InIdOrder({id \in docs : Matches(id, f)}, 1)

(***************************************************************************)
(* QueryRouterAgent.generate_mongodb_filter                                *)
(***************************************************************************)
\* Variant: a membership whatever the length of the list.
ListClauseAlwaysIn(key, list) == Dict1(key, InClause(list))

\* One list field compiled to an equality (one element) or a membership.
ListClause(key, list) ==
    IF Len(list) = 1 THEN Dict1(key, EqClause(list[1]))
    ELSE Dict1(key, InClause(list))

\* Stock symbols first, company names second, no filter otherwise.
EntityFilter(routing) ==
    IF routing.stock_symbols # <<>>
    THEN ListClause(KSymbol, routing.stock_symbols)
    ELSE IF routing.entities # <<>>
         THEN ListClause(KCompanies, routing.entities)
         ELSE EmptyFilter

\* Variant: company names first, stock symbols second.
TemporalFilterNamesFirst(routing) ==
    IF routing.entities # <<>>
    THEN ListClause(KCompanies, routing.entities)
    ELSE IF routing.stock_symbols # <<>>
         THEN ListClause(KSymbol, routing.stock_symbols)
         ELSE EmptyFilter

\* The TEMPORAL branch: the same precedence, written out a second time.
TemporalFilter(routing) ==
    IF routing.stock_symbols # <<>>
    THEN (IF Len(routing.stock_symbols) = 1
          THEN Dict1(KSymbol, EqClause(routing.stock_symbols[1]))
          ELSE Dict1(KSymbol, InClause(routing.stock_symbols)))
    ELSE IF routing.entities # <<>>
         THEN (IF Len(routing.entities) = 1
               THEN Dict1(KCompanies, EqClause(routing.entities[1]))
               ELSE Dict1(KCompanies, InClause(routing.entities)))
         ELSE EmptyFilter

\* Variant: a semantic search filtered by the routed entities.
SemanticSearchFilterByEntity(routing) == EntityFilter(routing)

\* The SEMANTIC_SEARCH branch and the default: no metadata filtering.
SemanticSearchFilter(routing) == EmptyFilter

SentimentDrivenFilter(routing) ==
    IF Truthy(routing.sentiment_filter)
    THEN LET base_filter == Dict1(KSentiment, EqClause(routing.sentiment_filter))
         IN  IF routing.sectors # <<>>
             THEN Dict1(KAnd, AndClause(<<base_filter,
                                          ListClause(KSectors, routing.sectors)>>))
             ELSE base_filter
    ELSE EmptyFilter

generate_mongodb_filter(routing) ==
    CASE routing.strategy = "DIRECT_ENTITY" -> EntityFilter(routing)
      [] routing.strategy = "SECTOR_WIDE" ->
           IF routing.sectors # <<>>
           THEN ListClause(KSectors, routing.sectors) ELSE EmptyFilter
      [] routing.strategy = "REGULATORY" ->
           IF routing.regulators # <<>>
           THEN ListClause(KRegulators, routing.regulators) ELSE EmptyFilter
      [] routing.strategy = "SENTIMENT_DRIVEN" -> SentimentDrivenFilter(routing)
      [] routing.strategy = "CROSS_IMPACT" ->
           IF Len(routing.sectors) >= 2
           THEN Dict1(KSectors, InClause(routing.sectors))
           ELSE IF routing.sectors # <<>>
                THEN Dict1(KSectors, EqClause(routing.sectors[1]))
                ELSE EmptyFilter
      [] routing.strategy = "TEMPORAL" -> TemporalFilter(routing)
      [] OTHER -> SemanticSearchFilter(routing)

(***************************************************************************)
(* QueryRouterSchema validators and QueryRouterAgent._validate_and_enrich  *)
(***************************************************************************)
RECURSIVE validate_list_fields(_)
\* [item.strip() for item in v if item and len(item.strip()) > 0]
validate_list_fields(v) ==
    IF v = <<>> THEN <<>>
    ELSE IF Len(Strip(Head(v))) > 0
         THEN <<Strip(Head(v))>> \o validate_list_fields(Tail(v))
         ELSE validate_list_fields(Tail(v))

\* The schema accepts the LLM's output: enum strategy, valid or absent
\* sentiment_filter, refined_query of 3+ characters, confidence in [0,1]
\* (confidence is held in hundredths).
SchemaAccepts(out) ==
    /\ out.strategy \in QueryIntent
    /\ (out.sentiment_filter # NoneVal => out.sentiment_filter \in valid_sentiments)
    /\ Len(Strip(out.refined_query)) >= 3
    /\ out.confidence >= 0 /\ out.confidence <= 100

\* QueryRouterSchema.model_validate(result_dict), when accepted.
model_validate(out) ==
    [out EXCEPT !.entities = validate_list_fields(out.entities),
                !.stock_symbols = validate_list_fields(out.stock_symbols),
                !.sectors = validate_list_fields(out.sectors),
                !.regulators = validate_list_fields(out.regulators),
                !.refined_query = Strip(out.refined_query)]

RECURSIVE DedupCaseSensitive(_, _)
\* Variant: the seen-set holds the entries as written.
DedupCaseSensitive(list, seen) ==
    IF list = <<>> THEN <<>>
    ELSE LET item == Strip(Head(list))
         IN  IF item # <<>> /\ item \notin seen
             THEN <<item>> \o DedupCaseSensitive(Tail(list), seen \cup {item})
             ELSE DedupCaseSensitive(Tail(list), seen)

RECURSIVE DedupFirstSeen(_, _)
\* The seen-set loop: keep the stripped first occurrence of each
\* case-insensitively distinct, non-empty entry.
DedupFirstSeen(list, seen) ==
    IF list = <<>> THEN <<>>
    ELSE LET lower == Strip(Lower(Head(list)))
         IN  IF lower # <<>> /\ lower \notin seen
             THEN <<Strip(Head(list))>> \o DedupFirstSeen(Tail(list), seen \cup {lower})
             ELSE DedupFirstSeen(Tail(list), seen)

\* set(s.upper().strip() for s in stock_symbols if s)
SymbolSet(list) == {Strip(Upper(list[i])) : i \in {j \in DOMAIN list : list[j] # <<>>}}

\* list(set(...)): the elements of S in an order the hash seed decides.
ListsOfSet(S) ==
    {l \in [1..Cardinality(S) -> S] : Range(l) = S}

\* The results _validate_and_enrich can produce for a validated schema;
\* they differ only in the order of stock_symbols.
validate_and_enrich(raw) ==
    {[raw EXCEPT
        !.entities = DedupFirstSeen(raw.entities, {}),
        !.stock_symbols = syms,
        !.sectors = DedupFirstSeen(raw.sectors, {}),
        !.regulators = DedupFirstSeen(raw.regulators, {}),
        !.refined_query =
            IF Strip(raw.refined_query) = <<>>
            THEN (IF DedupFirstSeen(raw.entities, {}) # <<>>
                  THEN DedupFirstSeen(raw.entities, {})[1]
                  ELSE FinancialNews)
            ELSE raw.refined_query]
     : syms \in ListsOfSet(SymbolSet(raw.stock_symbols))}

(***************************************************************************)
(* ChromaDBClient: nearest-neighbour search over the indexed embeddings.   *)
(* Scores are in units of 1/ScoreOne; distances are in tenths.             *)
(***************************************************************************)
ScoreOne == 4000

Closer(x, y) ==
    \/ Pool[x].dist < Pool[y].dist
    \/ Pool[x].dist = Pool[y].dist /\ IdRank(x) <= IdRank(y)

RECURSIVE Nearest(_, _)
\* collection.query(n_results = n): the n indexed ids nearest to the query.
Nearest(S, n) ==
    IF S = {} \/ n <= 0 THEN <<>>
    ELSE LET m == CHOOSE x \in S : \A y \in S : Closer(x, y)
         IN  <<m>> \o Nearest(S \ {m}, n - 1)

\* ChromaDBClient._format_results
format_results(ids) ==
    [i \in DOMAIN ids |->
        [article_id |-> ids[i],
         similarity |-> ScoreOne - Pool[ids[i]].dist * (ScoreOne \div 10),
         distance |-> Pool[ids[i]].dist]]

\* ChromaDBClient.search
search(indexed, top_k) == format_results(Nearest(indexed, top_k))

\* Variant: the where clause on article_id is left out of the query.
search_by_ids_unrestricted(indexed, article_ids, top_k) ==
    IF article_ids = <<>> THEN <<>>
    ELSE format_results(Nearest(indexed, Min(top_k, Len(article_ids))))

\* ChromaDBClient.search_by_ids
search_by_ids(indexed, article_ids, top_k) ==
    IF article_ids = <<>> THEN <<>>
    ELSE format_results(Nearest(indexed \cap Range(article_ids),
                                Min(top_k, Len(article_ids))))

ResultIds(vector_results) ==
    [i \in DOMAIN vector_results |-> vector_results[i].article_id]

\* Variant: the candidates are not compared with valid_ids.
KeepValidAll(vector_results, valid_ids) == vector_results

RECURSIVE KeepValid(_, _)
\* [r for r in vector_results if r["article_id"] in valid_ids]
KeepValid(vector_results, valid_ids) ==
    IF vector_results = <<>> THEN <<>>
    ELSE IF Head(vector_results).article_id \in valid_ids
         THEN <<Head(vector_results)>> \o KeepValid(Tail(vector_results), valid_ids)
         ELSE KeepValid(Tail(vector_results), valid_ids)

(***************************************************************************)
(* ArticleRepository.get_articles_by_ids and                               *)
(* QueryProcessorAgent._attach_scores                                      *)
(***************************************************************************)
\* ArticleRepository._from_document: the NewsArticle of a stored document.
\* relevance_score, strategy_score and final_score are the attributes that
\* the query processor attaches at run time (absent = 0.0 under getattr).
from_document(id) ==
    [id |-> id,
     companies |-> Pool[id].companies, symbols |-> Pool[id].symbols,
     sectors |-> Pool[id].sectors, regulators |-> Pool[id].regulators,
     sentiment |-> Pool[id].sentiment,
     signal_strength |-> Pool[id].signal_strength,
     cross_impacts |-> Pool[id].cross_impacts,
     relevance_score |-> 0, strategy_score |-> 0, final_score |-> 0]

\* The stored articles among article_ids, in the order of article_ids.
get_articles_by_ids(docs, article_ids) ==
    LET found == SelectIn(article_ids, docs)
    IN  [i \in DOMAIN found |-> from_document(found[i])]

\* score_map = {r["article_id"]: r["similarity"] for r in vector_results}
ScoreOf(vector_results, id) ==
    IF \E i \in DOMAIN vector_results : vector_results[i].article_id = id
    THEN LET last == CHOOSE i \in DOMAIN vector_results :
                        /\ vector_results[i].article_id = id
                        /\ \A j \in DOMAIN vector_results :
                              vector_results[j].article_id = id => j <= i
         IN  vector_results[last].similarity
    ELSE 0

attach_scores(articles, vector_results) ==
    [i \in DOMAIN articles |->
        [articles[i] EXCEPT !.relevance_score = ScoreOf(vector_results, articles[i].id)]]

(***************************************************************************)
(* QueryProcessorAgent._calculate_strategy_score, _apply_sentiment_boost   *)
(* and _rerank_articles                                                    *)
(***************************************************************************)
LowerSet(list) == {Lower(list[i]) : i \in DOMAIN list}

\* Variant: symbols compared as written.
UpperSetAsWritten(list) == Range(list)

\* [s.upper() for s in list]
UpperSet(list) == {Upper(list[i]) : i \in DOMAIN list}

\* Variant: names compared as written.
AnyExactMatch(routing_list, article_list) ==
    Range(routing_list) \cap Range(article_list) # {}

\* any(x.lower() in [str(a).lower() for a in article_list] for x in routing_list)
AnyLowerMatch(routing_list, article_list) ==
    LowerSet(routing_list) \cap LowerSet(article_list) # {}

calculate_strategy_score(a, routing) ==
    CASE routing.strategy = "DIRECT_ENTITY" ->
               LET company_match == AnyLowerMatch(routing.entities, a.companies)
                   stock_match ==
                       UpperSet(routing.stock_symbols) \cap UpperSet(a.symbols) # {}
               IN  IF company_match \/ stock_match THEN ScoreOne ELSE 0
          [] routing.strategy = "SECTOR_WIDE" ->
               IF AnyLowerMatch(routing.sectors, a.sectors)
               THEN (8 * ScoreOne) \div 10 ELSE 0
          [] routing.strategy = "REGULATORY" ->
               IF AnyLowerMatch(routing.regulators, a.regulators)
               THEN ScoreOne ELSE 0
          [] routing.strategy = "SENTIMENT_DRIVEN" ->
               IF a.sentiment # NoneVal
               THEN IF a.sentiment = routing.sentiment_filter
                    THEN IF routing.sectors # <<>>
                            /\ AnyLowerMatch(routing.sectors, a.sectors)
                         THEN (9 * ScoreOne) \div 10
                         ELSE (7 * ScoreOne) \div 10
                    ELSE 0
               ELSE 0
          [] routing.strategy = "CROSS_IMPACT" ->
               IF a.cross_impacts THEN (8 * ScoreOne) \div 10
               ELSE (5 * ScoreOne) \div 10
          [] OTHER -> (3 * ScoreOne) \div 10

\* score * (1.0 + sentiment_signal / 200.0)
apply_sentiment_boost(score, sentiment_signal) ==
    (score * (200 + sentiment_signal)) \div 200

\* Variant: the boosted score is stored without the cap.
ScoreArticleUncapped(art, routing) ==
    LET strategy_score == calculate_strategy_score(art, routing)
        base_score == (art.relevance_score + strategy_score) \div 2
        boosted == IF art.sentiment # NoneVal
                   THEN apply_sentiment_boost(base_score, art.signal_strength)
                   ELSE base_score
    IN  [art EXCEPT !.final_score = boosted,
                    !.strategy_score = strategy_score]

\* The scoring loop body for one article.  base_score is
\* 0.5 * semantic + 0.5 * strategy; the sum is a multiple of 2 units and
\* the base a multiple of 200 units, so both divisions are exact.
ScoreArticle(art, routing) ==
    LET semantic_score == art.relevance_score
        strategy_score == calculate_strategy_score(art, routing)
        base_score == (semantic_score + strategy_score) \div 2
        boosted == IF art.sentiment # NoneVal
                   THEN apply_sentiment_boost(base_score, art.signal_strength)
                   ELSE base_score
    IN  [art EXCEPT !.final_score = Min(boosted, ScoreOne),
                    !.strategy_score = strategy_score]

RECURSIVE InsertDescBeforeEqual(_, _)
\* Variant: x placed before the elements of equal final_score.
InsertDescBeforeEqual(sorted, x) ==
    IF sorted = <<>> THEN <<x>>
    ELSE IF Head(sorted).final_score > x.final_score
         THEN <<Head(sorted)>> \o InsertDescBeforeEqual(Tail(sorted), x)
         ELSE <<x>> \o sorted

RECURSIVE InsertDesc(_, _)
\* x placed after every element whose final_score is >= its own.
InsertDesc(sorted, x) ==
    IF sorted = <<>> THEN <<x>>
    ELSE IF Head(sorted).final_score >= x.final_score
         THEN <<Head(sorted)>> \o InsertDesc(Tail(sorted), x)
         ELSE <<x>> \o sorted

RECURSIVE SortedDesc(_)
\* sorted(articles, key=final_score, reverse=True): stable, descending.
SortedDesc(articles) ==
    IF articles = <<>> THEN <<>>
    ELSE InsertDesc(SortedDesc(SubSeq(articles, 1, Len(articles) - 1)),
                    articles[Len(articles)])

rerank_articles(articles, routing) ==
    SortedDesc([i \in DOMAIN articles |-> ScoreArticle(articles[i], routing)])

(***************************************************************************)
(* Inputs: requests reaching ExecuteQueryUseCase.execute and the LLM's     *)
(* structured outputs.                                                     *)
(***************************************************************************)
Queries == {<<>>, <<" ">>, <<"r", "b", "i">>}

SentimentInputs == {NoneVal, "", "Bullish", "Bearish", "Invalid"}

ListProfiles == {"none", "one", "many"}

ProfileLists(p) ==
    CASE p = "none" ->
           [entities |-> <<>>, stock_symbols |-> <<>>,
            sectors |-> <<>>, regulators |-> <<>>]
      [] p = "one" ->
           [entities |-> <<CoTs>>, stock_symbols |-> <<Lower(SymTS)>>,
            sectors |-> <<SecBk>>, regulators |-> <<RegRb>>]
      [] p = "lower" ->
           [entities |-> <<Lower(CoTs)>>, stock_symbols |-> <<Lower(SymTS)>>,
            sectors |-> <<Lower(SecBk)>>, regulators |-> <<Lower(RegRb)>>]
      [] p = "messy" ->
           [entities |-> <<<<>>, <<" ">>, <<" ", "T", "s", " ">>, Lower(CoTs), CoHb>>,
            stock_symbols |-> <<<<"h", "b", " ">>, SymTS, <<"H", "b">>, Lower(SymTS)>>,
            sectors |-> <<<<" ">>, SecIt, <<"i", "t", " ">>, SecBk>>,
            regulators |-> <<RegRb, Lower(RegRb), <<>>>>]
      [] p = "name" ->
           [entities |-> <<CoTs>>, stock_symbols |-> <<>>,
            sectors |-> <<>>, regulators |-> <<>>]
      [] p = "names" ->
           [entities |-> <<CoTs, Lower(CoTs), CoHb>>, stock_symbols |-> <<>>,
            sectors |-> <<>>, regulators |-> <<>>]
      [] p = "symbol" ->
           [entities |-> <<>>, stock_symbols |-> <<Lower(SymTS)>>,
            sectors |-> <<>>, regulators |-> <<>>]
      [] OTHER ->
           [entities |-> <<CoTs, <<" ", "t", "s">>, CoHb>>,
            stock_symbols |-> <<SymTS, <<"h", "b", " ">>>>,
            sectors |-> <<SecBk, SecIt, Lower(SecBk)>>,
            regulators |-> <<RegRb, RegSb>>]

\* QueryRouting.strategy_metadata before process_query attaches a dict
\* (None in the code): a dict without keys.
NoMetadata == <<>>

LLMOutput(strategy, p, sentiment, refined, confidence) ==
    [strategy |-> strategy,
     entities |-> ProfileLists(p).entities,
     stock_symbols |-> ProfileLists(p).stock_symbols,
     sectors |-> ProfileLists(p).sectors,
     regulators |-> ProfileLists(p).regulators,
     sentiment_filter |-> sentiment,
     refined_query |-> refined,
     confidence |-> confidence,
     strategy_metadata |-> NoMetadata]

GoodRefined == <<" ", "r", "b", "i">>

LLMOutputs ==
    {LLMOutput(st, p, sent, GoodRefined, 90) :
        st \in QueryIntent, p \in ListProfiles,
        sent \in {NoneVal, "Bullish", "Bearish"}}
    \cup {LLMOutput("SENTIMENT_DRIVEN", "one", "Invalid", GoodRefined, 90),
          LLMOutput("DIRECT_ENTITY", "one", NoneVal, <<" ", "r", " ">>, 90),
          LLMOutput("DIRECT_ENTITY", "one", NoneVal, GoodRefined, 150)}

(***************************************************************************)
(* State.                                                                  *)
(***************************************************************************)
\* GroqLLMClient.__init__: max_retries: int = 3
DefaultMaxRetries == 3

VARIABLES
    store,            \* ids of the documents in the MongoDB collection
    index,            \* ids of the embeddings in the ChromaDB collection
    max_filter_ids,   \* config.mongodb.max_filter_ids
    default_top_k,    \* config.query_processing.default_top_k
    pc,               \* position of the query in execute / process / process_query
    req,              \* execute's arguments: query, top_k, sentiment_filter
    top_k,            \* the top_k QueryNode.process passes to process_query
    routing,          \* the QueryRouting of the running query
    mongodb_filter,   \* process_query's local of that name
    filtered_count,   \* process_query's local of that name
    strategy_used,    \* process_query's local of that name
    filtered_ids,     \* ids fetched in the mongo_filter_first branch
    vector_results,   \* process_query's local of that name
    exc,              \* the exception propagating out of the graph, if any
    full_articles,    \* process_query's local: hydrated articles with scores
    reranked_articles,\* process_query's local: _rerank_articles' result
    final_articles,   \* the articles process_query returned
    graph_state,      \* query_results, stats and error of the graph state
    result,           \* what execute returned to its caller
    calls,            \* number of calls made to each collaborator by this query
    sent,             \* the filters this query sent to the collection, in order
    ran,              \* history: the execution branches whose code has run
    llm_seen,         \* history: what the LLM capability did for this query
    searches,         \* history: the requests this query made to the vector index
    max_retries,      \* GroqLLMClient.max_retries
    attempt,          \* _retry_with_backoff's loop variable
    attempts,         \* history: the outcome of each invocation of the model
    waits             \* the waits _retry_with_backoff has slept, in seconds

vars ==
    <<store, index, max_filter_ids, default_top_k, pc, req, top_k, routing,
      mongodb_filter, filtered_count, strategy_used, filtered_ids,
      vector_results, full_articles, reranked_articles, final_articles, exc,
      graph_state, result, calls, sent, ran, llm_seen, searches,
      max_retries, attempt, attempts, waits>>

\* The LLM client: its retry budget and the state of its retry loop.
llm_client == <<max_retries, attempt, attempts, waits>>

config == <<max_filter_ids, default_top_k>>

corpus == <<store, index>>

locals ==
    <<routing, mongodb_filter, filtered_count, strategy_used, filtered_ids,
      vector_results, full_articles, reranked_articles, final_articles>>

ranked == <<full_articles, reranked_articles, final_articles>>

history == <<ran, llm_seen, searches>>

\* output is the structured output the LLM returned, when it returned one.
NoLLM == [outcome |-> "none", sentiment_filter |-> NoneVal, output |-> NoneVal]

\* execute's initial_state, as far as the query graph reads or writes it.
initial_state == [query_results |-> <<>>, stats |-> <<>>, error |-> NoneVal]

NoCalls ==
    [llm |-> 0, count |-> 0, find |-> 0, hydrate |-> 0, embed |-> 0, search |-> 0]

NoResult == [kind |-> "none", articles |-> <<>>, stats |-> <<>>]

Init ==
    /\ store = {}
    /\ index = {}
    /\ max_filter_ids \in 0..MaxThreshold
    /\ default_top_k \in 1..MaxTopK
    /\ pc = "idle"
    /\ req = [query |-> <<>>, top_k |-> 1, sentiment_filter |-> NoneVal]
    /\ top_k = 1
    /\ routing = NoneVal
    /\ mongodb_filter = EmptyFilter
    /\ filtered_count = 0
    /\ strategy_used = NoneVal
    /\ filtered_ids = <<>>
    /\ vector_results = <<>>
    /\ exc = NoneVal
    /\ full_articles = <<>>
    /\ reranked_articles = <<>>
    /\ final_articles = <<>>
    /\ graph_state = initial_state
    /\ result = NoResult
    /\ calls = NoCalls
    /\ sent = <<>>
    /\ ran = {}
    /\ llm_seen = NoLLM
    /\ searches = <<>>
    /\ max_retries = DefaultMaxRetries
    /\ attempt = 1
    /\ attempts = <<>>
    /\ waits = <<>>

(***************************************************************************)
(* IndexingNode.process: the ingestion pipeline stores an enriched article *)
(* in MongoDB (upsert by id) and indexes its embedding.                    *)
(***************************************************************************)
Ingest(id) ==
    /\ pc = "idle"
    /\ store' = store \cup {id}
    /\ index' = index \cup {id}
    /\ UNCHANGED <<config, llm_client, pc, req, top_k, locals, exc, graph_state, result,
                   calls, sent,
                   history>>

(***************************************************************************)
(* ExecuteQueryUseCase.execute: build the initial graph state and invoke   *)
(* the graph.                                                              *)
(***************************************************************************)
Execute(query, k, sentiment_filter) ==
    /\ pc = "idle"
    /\ req' = [query |-> query, top_k |-> k, sentiment_filter |-> sentiment_filter]
    /\ pc' = "node"
    /\ top_k' = 1
    /\ routing' = NoneVal
    /\ mongodb_filter' = EmptyFilter
    /\ filtered_count' = 0
    /\ strategy_used' = NoneVal
    /\ filtered_ids' = <<>>
    /\ vector_results' = <<>>
    /\ exc' = NoneVal
    /\ full_articles' = <<>>
    /\ reranked_articles' = <<>>
    /\ final_articles' = <<>>
    /\ graph_state' = initial_state
    /\ result' = NoResult
    /\ calls' = NoCalls
    /\ sent' = <<>>
    /\ ran' = {}
    /\ llm_seen' = NoLLM
    /\ searches' = <<>>
    /\ UNCHANGED <<config, llm_client, corpus>>

(***************************************************************************)
(* QueryNode.process, up to the call of process_query.                     *)
(***************************************************************************)
NodeRejects ==
    \/ req.query = <<>>
    \/ Truthy(req.sentiment_filter) /\ req.sentiment_filter \notin valid_sentiments

\* return {"error": ...}: the graph ends with only the error key updated.
NodeReject ==
    /\ pc = "node"
    /\ NodeRejects
    /\ graph_state' =
          [graph_state EXCEPT
              !.error = IF req.query = <<>> THEN "No query text provided"
                        ELSE "Invalid sentiment filter"]
    /\ pc' = "graph_end"
    /\ UNCHANGED <<config, llm_client, corpus, req, top_k, locals, exc, result, calls, sent,
                   history>>

\* top_k comes from the configuration; process_query is entered.
NodeAccept ==
    /\ pc = "node"
    /\ ~NodeRejects
    /\ top_k' = default_top_k
    /\ pc' = "route"
    /\ UNCHANGED <<config, llm_client, corpus, req, locals, exc, graph_state, result,
                   calls, sent,
                   history>>

(***************************************************************************)
(* QueryRouterAgent.route_query, called first by process_query.            *)
(***************************************************************************)
\* Variant: the query is not stripped before the emptiness test.
route_rejects_unstripped(query) == query = <<>>

\* not query or not query.strip()
route_rejects(query) == query = <<>> \/ Strip(query) = <<>>

\* raise ValueError("Query cannot be empty"), before the try block and
\* before the LLM is called.
RouteEmpty ==
    /\ pc = "route"
    /\ route_rejects(req.query)
    /\ exc' = "ValueError"
    /\ pc' = "raised"
    /\ UNCHANGED <<config, llm_client, corpus, req, top_k, locals, graph_state, result,
                   calls, sent,
                   history>>

\* generate_structured_output raises: wrapped as LLMServiceError.
RouteLLMFail ==
    /\ pc = "route"
    /\ ~route_rejects(req.query)
    /\ calls' = [calls EXCEPT !.llm = @ + 1]
    /\ llm_seen' = [outcome |-> "failed", sentiment_filter |-> NoneVal,
                   output |-> NoneVal]
    /\ exc' = "LLMServiceError"
    /\ pc' = "raised"
    /\ UNCHANGED <<config, llm_client, corpus, req, top_k, locals, graph_state, result, sent,
                   ran, searches>>

\* Variant: a rejected output is replaced by a default routing and the
\* query goes on.
RouteSchemaRejectDefaulted(out) ==
    /\ pc = "route"
    /\ ~route_rejects(req.query)
    /\ ~SchemaAccepts(out)
    /\ calls' = [calls EXCEPT !.llm = @ + 1]
    /\ llm_seen' = [outcome |-> "rejected", sentiment_filter |-> out.sentiment_filter,
                   output |-> out]
    /\ routing' = LLMOutput("SEMANTIC_SEARCH", "none", NoneVal, req.query, 0)
    /\ pc' = "compile"
    /\ UNCHANGED <<config, llm_client, corpus, req, top_k, mongodb_filter, filtered_count,
                   strategy_used, filtered_ids, vector_results, ranked,
                   exc, graph_state, result, sent, ran, searches>>

\* The LLM's output fails the schema: the ValueError of the validator is
\* raised inside the try and wrapped as LLMServiceError.
RouteSchemaReject(out) ==
    /\ pc = "route"
    /\ ~route_rejects(req.query)
    /\ ~SchemaAccepts(out)
    /\ calls' = [calls EXCEPT !.llm = @ + 1]
    /\ llm_seen' = [outcome |-> "rejected", sentiment_filter |-> out.sentiment_filter,
                   output |-> out]
    /\ exc' = "LLMServiceError"
    /\ pc' = "raised"
    /\ UNCHANGED <<config, llm_client, corpus, req, top_k, locals, graph_state, result, sent,
                   ran, searches>>

\* The QueryRouting returned for an accepted output.
RouteOK(out) ==
    /\ pc = "route"
    /\ ~route_rejects(req.query)
    /\ SchemaAccepts(out)
    /\ calls' = [calls EXCEPT !.llm = @ + 1]
    /\ llm_seen' = [outcome |-> "ok", sentiment_filter |-> out.sentiment_filter,
                   output |-> out]
    /\ routing' \in validate_and_enrich(model_validate(out))
    /\ pc' = "compile"
    /\ UNCHANGED <<config, llm_client, corpus, req, top_k, mongodb_filter, filtered_count,
                   strategy_used, filtered_ids, vector_results, ranked,
                   exc, graph_state, result, sent,
                   ran, searches>>

(***************************************************************************)
(* QueryProcessorAgent.process_query, one action per round trip.           *)
(***************************************************************************)
Sent(kind, f) == [kind |-> kind, filter |-> f]

\* A request to the vector index: the text whose embedding is the query
\* vector, the ids the search is restricted to (for search_by_ids) and the
\* top_k asked for.
Searched(kind, text, article_ids, n) ==
    [kind |-> kind, text |-> text, article_ids |-> article_ids, top_k |-> n]

\* Variant: the override is not written into the routing.
OverriddenRoutingSkipped == routing

\* Steps 2-4: sentiment override, filter generation, first count.
OverriddenRouting ==
    IF Truthy(req.sentiment_filter)
    THEN [routing EXCEPT !.sentiment_filter = req.sentiment_filter]
    ELSE routing

CompiledFilter(r) ==
    IF Truthy(req.sentiment_filter)
    THEN DictSet(generate_mongodb_filter(r), KSentiment,
                 EqClause(req.sentiment_filter))
    ELSE generate_mongodb_filter(r)

CompileAndCount ==
    /\ pc = "compile"
    /\ routing' = OverriddenRouting
    /\ mongodb_filter' = CompiledFilter(routing')
    /\ filtered_count' = count_documents(store, mongodb_filter')
    /\ calls' = [calls EXCEPT !.count = @ + 1]
    /\ sent' = Append(sent, Sent("compiled", mongodb_filter'))
    /\ pc' = "counted"
    /\ UNCHANGED <<config, llm_client, corpus, req, top_k, strategy_used, filtered_ids,
                   vector_results, ranked, exc, graph_state, result,
                   history>>

\* Variant: the count is never repeated.
NeedsRelaxNever == FALSE

NeedsRelax == filtered_count = 0 /\ Truthy(req.sentiment_filter)

\* Variant: the relaxation keeps the compiled filter.
RelaxedFilterKept == mongodb_filter

\* {"sentiment.classification": sentiment_filter}
RelaxedFilter == Dict1(KSentiment, EqClause(req.sentiment_filter))

\* Fallback: relax other filters, keep sentiment; count again.
Relax ==
    /\ pc = "counted"
    /\ NeedsRelax
    /\ mongodb_filter' = RelaxedFilter
    /\ filtered_count' = count_documents(store, mongodb_filter')
    /\ calls' = [calls EXCEPT !.count = @ + 1]
    /\ sent' = Append(sent, Sent("relaxed", mongodb_filter'))
    /\ pc' = "branch"
    /\ UNCHANGED <<config, llm_client, corpus, req, top_k, routing, strategy_used,
                   filtered_ids, vector_results, ranked, exc,
                   graph_state, result,
                   history>>

ReadyToBranch == pc = "branch" \/ (pc = "counted" /\ ~NeedsRelax)

\* Variant: the threshold compared strictly.
SelectStrategyStrict(count, threshold) ==
    IF count = 0 THEN "vector_search_fallback"
    ELSE IF count < threshold THEN "mongo_filter_first"
         ELSE "vector_search_first"

\* if filtered_count == 0 ... elif filtered_count <= max_filter_ids ... else
SelectStrategy(count, threshold) ==
    IF count = 0 THEN "vector_search_fallback"
    ELSE IF count <= threshold THEN "mongo_filter_first"
         ELSE "vector_search_first"

FallbackMetadata(n) ==
    [strategy_used |-> "vector_search_fallback", filtered_count |-> 0,
     fallback_triggered |-> TRUE, mongodb_filter_applied |-> FALSE,
     vector_candidates |-> n]

\* filtered_count == 0: unrestricted vector search for 2 * top_k.
FallbackSearch ==
    /\ ReadyToBranch
    /\ SelectStrategy(filtered_count, max_filter_ids) = "vector_search_fallback"
    /\ strategy_used' = "vector_search_fallback"
    /\ ran' = ran \cup {"vector_search_fallback"}
    /\ vector_results' = search(index, top_k * 2)
    /\ searches' = Append(searches,
          Searched("search", routing.refined_query, <<>>, top_k * 2))
    /\ calls' = [calls EXCEPT !.embed = @ + 1, !.search = @ + 1]
    /\ IF Truthy(req.sentiment_filter)
       THEN /\ pc' = "postfilter"
            /\ UNCHANGED routing
       ELSE /\ pc' = "hydrate"
            /\ routing' = [routing EXCEPT
                  !.strategy_metadata = FallbackMetadata(Len(vector_results'))]
    /\ UNCHANGED <<config, llm_client, corpus, req, top_k, mongodb_filter, filtered_count,
                   filtered_ids, ranked, exc, graph_state, result, sent,
                   llm_seen>>

\* Variant: the post-filter asks for the candidate ids only.
PostFilterIdsOnly(candidate_ids) == Dict1(KId, InClause(candidate_ids))

PostFilter(candidate_ids) ==
    DictSet(Dict1(KId, InClause(candidate_ids)), KSentiment,
            EqClause(req.sentiment_filter))

\* Sentiment post-filtering of the fallback candidates.
FallbackPostFilter ==
    /\ pc = "postfilter"
    /\ LET f == PostFilter(ResultIds(vector_results))
           valid_ids == Range(find_ids(store, f))
       IN  /\ vector_results' = Take(KeepValid(vector_results, valid_ids), top_k * 2)
           /\ sent' = Append(sent, Sent("postfilter", f))
    /\ calls' = [calls EXCEPT !.find = @ + 1]
    /\ routing' = [routing EXCEPT
          !.strategy_metadata = FallbackMetadata(Len(vector_results'))]
    /\ pc' = "hydrate"
    /\ UNCHANGED <<config, llm_client, corpus, req, top_k, mongodb_filter, filtered_count,
                   strategy_used, filtered_ids, ranked, exc,
                   graph_state, result,
                   history>>

\* Strategy A, first round trip: ids matching the filter (projection only).
MongoFindIds ==
    /\ ReadyToBranch
    /\ SelectStrategy(filtered_count, max_filter_ids) = "mongo_filter_first"
    /\ strategy_used' = "mongo_filter_first"
    /\ ran' = ran \cup {"mongo_filter_first"}
    /\ filtered_ids' = find_ids(store, mongodb_filter)
    /\ calls' = [calls EXCEPT !.find = @ + 1]
    /\ sent' = Append(sent, Sent("find_ids", mongodb_filter))
    /\ pc' = "search_by_ids"
    /\ UNCHANGED <<config, llm_client, corpus, req, top_k, routing, mongodb_filter,
                   filtered_count, vector_results, ranked, exc,
                   graph_state, result,
                   llm_seen, searches>>

\* Strategy A, second round trip: vector search restricted to those ids.
MongoSearchByIds ==
    /\ pc = "search_by_ids"
    /\ vector_results' = search_by_ids(index, filtered_ids, top_k * 2)
    /\ searches' = Append(searches,
          Searched("search_by_ids", routing.refined_query, filtered_ids,
                   top_k * 2))
    /\ calls' = [calls EXCEPT !.embed = @ + 1, !.search = @ + 1]
    /\ pc' = "hydrate"
    /\ UNCHANGED <<config, llm_client, corpus, req, top_k, routing, mongodb_filter,
                   filtered_count, strategy_used, filtered_ids, ranked,
                   exc, graph_state, result, sent,
                   ran, llm_seen>>

\* Strategy B, first round trip: unrestricted vector search for 5 * top_k.
VectorFirstSearch ==
    /\ ReadyToBranch
    /\ SelectStrategy(filtered_count, max_filter_ids) = "vector_search_first"
    /\ strategy_used' = "vector_search_first"
    /\ ran' = ran \cup {"vector_search_first"}
    /\ vector_results' = search(index, top_k * 5)
    /\ searches' = Append(searches,
          Searched("search", routing.refined_query, <<>>, top_k * 5))
    /\ calls' = [calls EXCEPT !.embed = @ + 1, !.search = @ + 1]
    /\ pc' = "validate"
    /\ UNCHANGED <<config, llm_client, corpus, req, top_k, routing, mongodb_filter,
                   filtered_count, filtered_ids, ranked, exc,
                   graph_state, result, sent,
                   llm_seen>>

\* Variant: the validation asks for the candidate ids only.
ValidationFilterIdsOnly(candidate_ids) == Dict1(KId, InClause(candidate_ids))

ValidationFilter(candidate_ids) ==
    DictSet(mongodb_filter, KId, InClause(candidate_ids))

\* Strategy B, second round trip: validate the candidates against MongoDB.
VectorFirstValidate ==
    /\ pc = "validate"
    /\ LET f == ValidationFilter(ResultIds(vector_results))
           valid_ids == Range(find_ids(store, f))
       IN  /\ vector_results' = Take(KeepValid(vector_results, valid_ids), top_k * 2)
           /\ sent' = Append(sent, Sent("validation", f))
    /\ calls' = [calls EXCEPT !.find = @ + 1]
    /\ pc' = "hydrate"
    /\ UNCHANGED <<config, llm_client, corpus, req, top_k, routing, mongodb_filter,
                   filtered_count, strategy_used, filtered_ids, ranked,
                   exc, graph_state, result,
                   history>>

\* Variant: the dict attached by the fallback branch is kept.
StrategyMetadataKept ==
    IF strategy_used = "vector_search_fallback"
    THEN routing.strategy_metadata
    ELSE [strategy_used |-> strategy_used,
          filtered_count |-> filtered_count,
          vector_candidates |-> Len(vector_results),
          mongodb_filter_applied |-> (DOMAIN mongodb_filter # {}),
          threshold |-> max_filter_ids]

StrategyMetadata ==
    [strategy_used |-> strategy_used,
     filtered_count |-> filtered_count,
     vector_candidates |-> Len(vector_results),
     mongodb_filter_applied |-> (DOMAIN mongodb_filter # {}),
     threshold |-> max_filter_ids]

\* Steps 6-9: hydrate, attach scores, rerank, truncate, attach metadata.
HydrateAndRank ==
    /\ pc = "hydrate"
    /\ LET article_ids == ResultIds(vector_results)
       IN  /\ full_articles' =
                 attach_scores(get_articles_by_ids(store, article_ids),
                               vector_results)
           /\ reranked_articles' = rerank_articles(full_articles', routing)
           /\ final_articles' = Take(reranked_articles', top_k)
           /\ calls' = [calls EXCEPT
                 !.hydrate = @ + (IF article_ids = <<>> THEN 0 ELSE 1)]
           /\ sent' = IF article_ids = <<>> THEN sent
                      ELSE Append(sent, Sent("hydrate",
                                             Dict1(KId, InClause(article_ids))))
    /\ routing' = [routing EXCEPT !.strategy_metadata = StrategyMetadata]
    /\ pc' = "returned"
    /\ UNCHANGED <<config, llm_client, corpus, req, top_k, mongodb_filter, filtered_count,
                   strategy_used, filtered_ids, vector_results, exc,
                   graph_state, result,
                   history>>

(***************************************************************************)
(* QueryNode.process after process_query, and the end of execute.          *)
(***************************************************************************)
\* strategy_metadata.get(key, default)
MetaGet(meta, key, default) ==
    IF key \in DOMAIN meta THEN meta[key] ELSE default

NodeStats ==
    [results_count |-> Len(final_articles),
     sentiment_filter |-> req.sentiment_filter,
     sentiment_filter_applied |-> (req.sentiment_filter # NoneVal),
     strategy |-> routing.strategy,
     entities_identified |-> Len(routing.entities),
     sectors_identified |-> Len(routing.sectors),
     regulators_identified |-> Len(routing.regulators),
     execution_strategy |-> MetaGet(routing.strategy_metadata, "strategy_used", "unknown"),
     mongodb_filter_applied |->
         MetaGet(routing.strategy_metadata, "mongodb_filter_applied", FALSE),
     filtered_count |-> MetaGet(routing.strategy_metadata, "filtered_count", 0),
     vector_candidates |-> MetaGet(routing.strategy_metadata, "vector_candidates", 0),
     threshold |-> MetaGet(routing.strategy_metadata, "threshold", 0)]

\* return {"query_results": results, "stats": stats}, merged into the
\* graph state by its reducers (list concatenation, dict merge).
NodeFinish ==
    /\ pc = "returned"
    /\ graph_state' =
          [graph_state EXCEPT
              !.query_results = graph_state.query_results \o final_articles,
              !.stats = NodeStats]
    /\ pc' = "graph_end"
    /\ UNCHANGED <<config, llm_client, corpus, req, top_k, locals, exc, result, calls, sent,
                   history>>

\* return {"articles": result.get("query_results", []),
\*         "stats": result.get("stats", {})}
ExecuteReturn ==
    /\ pc = "graph_end"
    /\ result' = [kind |-> "returned",
                  articles |-> graph_state.query_results,
                  stats |-> graph_state.stats]
    /\ pc' = "done"
    /\ UNCHANGED <<config, llm_client, corpus, req, top_k, locals, exc, graph_state,
                   calls, sent,
                   history>>

\* An exception raised under graph.invoke leaves execute uncaught.
ExecuteRaise ==
    /\ pc = "raised"
    /\ result' = [kind |-> exc, articles |-> <<>>, stats |-> <<>>]
    /\ pc' = "done"
    /\ UNCHANGED <<config, llm_client, corpus, req, top_k, locals, exc, graph_state,
                   calls, sent,
                   history>>

Next ==
    \/ \E id \in ArticleIds : Ingest(id)
    \/ \E q \in Queries, k \in 1..MaxTopK, sf \in SentimentInputs :
          Execute(q, k, sf)
    \/ NodeReject
    \/ NodeAccept
    \/ RouteEmpty
    \/ RouteLLMFail
    \/ \E out \in LLMOutputs : RouteSchemaReject(out)
    \/ \E out \in LLMOutputs : RouteOK(out)
    \/ CompileAndCount
    \/ Relax
    \/ FallbackSearch
    \/ FallbackPostFilter
    \/ MongoFindIds
    \/ MongoSearchByIds
    \/ VectorFirstSearch
    \/ VectorFirstValidate
    \/ HydrateAndRank
    \/ NodeFinish
    \/ ExecuteReturn
    \/ ExecuteRaise

Spec == Init /\ [][Next]_vars

(***************************************************************************)
(* Properties.                                                             *)
(***************************************************************************)
\* process_query has returned normally.
QuerySucceeded == pc \in {"returned", "graph_end", "done"} /\ strategy_used # NoneVal

Branches == {"vector_search_fallback", "mongo_filter_first", "vector_search_first"}

\* C1: once process_query has entered an execution branch, exactly one
\* branch has run: vector_search_fallback iff filtered_count = 0,
\* mongo_filter_first iff 0 < filtered_count <= max_filter_ids,
\* vector_search_first iff filtered_count > max_filter_ids; and the
\* strategy_used of the returned strategy_metadata is the branch that ran.
C1_BranchSelection ==
    /\ ran # {} =>
          /\ Cardinality(ran) = 1
          /\ ran \subseteq Branches
          /\ ("vector_search_fallback" \in ran) <=> (filtered_count = 0)
          /\ ("mongo_filter_first" \in ran) <=>
                (0 < filtered_count /\ filtered_count <= max_filter_ids)
          /\ ("vector_search_first" \in ran) <=> (filtered_count > max_filter_ids)
    /\ QuerySucceeded => routing.strategy_metadata.strategy_used \in ran

C1_Witness ==
    /\ pc = "done"
    /\ ran = {"mongo_filter_first"}
    /\ filtered_count = max_filter_ids
    /\ result.stats.execution_strategy = "mongo_filter_first"

\* The sentiment values a filter requires, at top level and inside "$and".
SentimentsRequired(f) ==
    (IF KSentiment \in DOMAIN f THEN Range(f[KSentiment].vals) ELSE {})
    \cup (IF KAnd \in DOMAIN f
          THEN UNION {IF KSentiment \in DOMAIN f[KAnd].subs[i]
                      THEN Range(f[KAnd].subs[i][KSentiment].vals) ELSE {}
                      : i \in DOMAIN f[KAnd].subs}
          ELSE {})

\* The filter has the top-level clause sentiment.classification = s.
RequiresSentiment(f, s) ==
    /\ KSentiment \in DOMAIN f
    /\ f[KSentiment].op = "eq"
    /\ f[KSentiment].vals = <<s>>

\* The filters process_query itself builds and sends to the collection
\* (the hydration by id goes through the repository).
FilterKinds == {"compiled", "relaxed", "find_ids", "validation", "postfilter"}

\* C2: with a sentiment override s, every filter process_query sends to
\* the collection requires sentiment.classification = s and requires no
\* other sentiment, whatever the LLM routed; the returned routing has
\* sentiment_filter = s.
C2_OverrideInEveryFilter ==
    Truthy(req.sentiment_filter) =>
        /\ \A i \in DOMAIN sent :
              sent[i].kind \in FilterKinds =>
                  /\ RequiresSentiment(sent[i].filter, req.sentiment_filter)
                  /\ SentimentsRequired(sent[i].filter) = {req.sentiment_filter}
        /\ QuerySucceeded => routing.sentiment_filter = req.sentiment_filter

C2_Witness ==
    /\ pc = "done"
    /\ strategy_used # NoneVal
    /\ Truthy(req.sentiment_filter)
    /\ llm_seen.sentiment_filter \in valid_sentiments \ {req.sentiment_filter}
    /\ routing.strategy = "SENTIMENT_DRIVEN"
    /\ routing.sectors # <<>>
    /\ \E i \in DOMAIN sent : sent[i].kind = "validation"
    /\ \E i \in DOMAIN sent : sent[i].kind = "compiled" /\ KAnd \in DOMAIN sent[i].filter

SentimentOnly(s) == Dict1(KSentiment, EqClause(s))

\* The combined filter (the first one counted) matches no stored document.
CombinedMatchesNone ==
    sent # <<>> /\ count_documents(store, sent[1].filter) = 0

\* C3: when the combined filter matches nothing and an override is present,
\* the filter becomes the sentiment-only filter and is counted once more;
\* filtered_count, the branch, the fetched id set and the metadata follow
\* the relaxed filter, and no exception is raised.  Without an override
\* there is one count and no relaxed filter.
C3_RelaxAndRecount ==
    /\ (ran # {} /\ Truthy(req.sentiment_filter) /\ CombinedMatchesNone) =>
          LET relaxed == SentimentOnly(req.sentiment_filter)
              n == count_documents(store, relaxed)
          IN  /\ calls.count = 2
              /\ sent[2] = Sent("relaxed", relaxed)
              /\ mongodb_filter = relaxed
              /\ filtered_count = n
              /\ ran = {SelectStrategy(n, max_filter_ids)}
              /\ exc = NoneVal
              /\ pc = "hydrate" /\ "mongo_filter_first" \in ran =>
                    filtered_ids = find_ids(store, relaxed)
              /\ QuerySucceeded =>
                    routing.strategy_metadata.filtered_count = n
    /\ (ran # {} /\ ~Truthy(req.sentiment_filter)) =>
          /\ calls.count = 1
          /\ \A i \in DOMAIN sent : sent[i].kind # "relaxed"
          /\ mongodb_filter = sent[1].filter

C3_Witness ==
    /\ pc = "done"
    /\ strategy_used # NoneVal
    /\ req.sentiment_filter = "Bearish"
    /\ routing.strategy = "DIRECT_ENTITY"
    /\ routing.stock_symbols = <<SymTS>>
    /\ CombinedMatchesNone
    /\ result.stats.execution_strategy = "mongo_filter_first"
    /\ result.stats.filtered_count = 1
    /\ Len(result.articles) = 1

\* C4: the caller of execute receives at most the top_k articles it
\* asked for.
C4_AtMostTopK ==
    result.kind = "returned" => Len(result.articles) <= req.top_k

\* Calls this query has made to the store, the embedder and the index.
StoreVectorCalls ==
    calls.count + calls.find + calls.hydrate + calls.embed + calls.search

\* C5: when the LLM fails or its output fails the schema, the query ends
\* with LLMServiceError, having made no store, embedding or vector call
\* and returning no article; any store or vector call follows a
\* successful routing.
C5_RoutingFailureAborts ==
    /\ llm_seen.outcome \in {"failed", "rejected"} =>
          /\ pc \in {"raised", "done"}
          /\ exc = "LLMServiceError"
          /\ StoreVectorCalls = 0
          /\ sent = <<>>
          /\ final_articles = <<>>
          /\ pc = "done" => result.kind = "LLMServiceError" /\ result.articles = <<>>
    /\ StoreVectorCalls > 0 => llm_seen.outcome = "ok" /\ exc = NoneVal

C5_Witness ==
    /\ pc = "done"
    /\ llm_seen.outcome = "rejected"
    /\ store # {}
    /\ result.kind = "LLMServiceError"
    /\ StoreVectorCalls = 0

\* route_query has been called (QueryNode.process did not return early).
RouteQueryCalled == pc \notin {"idle", "node"} /\ graph_state.error = NoneVal

\* C6: route_query given an empty or whitespace-only query raises
\* ValueError, the validation kind, and not LLMServiceError, and the LLM
\* is not called; the LLM is only ever called with a non-blank query.
C6_BlankQueryNotRouted ==
    /\ (RouteQueryCalled /\ pc \in {"raised", "done"} /\ Strip(req.query) = <<>>) =>
          /\ exc = "ValueError"
          /\ calls.llm = 0
          /\ llm_seen.outcome = "none"
          /\ pc = "done" => result.kind = "ValueError"
    /\ calls.llm > 0 => Strip(req.query) # <<>>

C6_Witness ==
    /\ pc = "done"
    /\ req.query = <<" ">>
    /\ result.kind = "ValueError"
    /\ calls.llm = 0

\* The request is invalid: no query text, or a sentiment filter outside
\* Bullish / Bearish / Neutral.
InvalidRequest ==
    \/ req.query = <<>>
    \/ Truthy(req.sentiment_filter) /\ req.sentiment_filter \notin valid_sentiments

\* execute ended in an error: it raised, or what it returned carries the
\* error.
ErrorOutcome == result.kind # "returned" \/ "error" \in DOMAIN result

\* C7: an invalid request is rejected before any LLM, store or vector
\* call, and execute ends in an error outcome.
C7_RejectionSurfaced ==
    (pc = "done" /\ InvalidRequest) =>
        /\ calls = NoCalls
        /\ ErrorOutcome

MetadataKeys ==
    {"strategy_used", "filtered_count", "vector_candidates",
     "mongodb_filter_applied", "threshold"}

\* C8: after a successful process_query the strategy_metadata has exactly
\* the five keys; filtered_count is the count of the final filter,
\* vector_candidates the number of surviving candidates, threshold is
\* max_filter_ids and mongodb_filter_applied tells whether the final
\* filter is non-empty.
C8_StrategyMetadata ==
    QuerySucceeded =>
        LET m == routing.strategy_metadata
        IN  /\ DOMAIN m = MetadataKeys
            /\ m.strategy_used = strategy_used
            /\ m.filtered_count = filtered_count
            /\ m.filtered_count = count_documents(store, mongodb_filter)
            /\ m.vector_candidates = Len(vector_results)
            /\ m.threshold = max_filter_ids
            /\ m.mongodb_filter_applied = (DOMAIN mongodb_filter # {})

C8_Witness ==
    /\ pc = "done"
    /\ strategy_used = "mongo_filter_first"
    /\ routing.strategy = "REGULATORY"
    /\ routing.regulators = <<RegRb>>
    /\ routing.sectors = <<SecBk>>
    /\ routing.strategy_metadata.filtered_count = 2
    /\ routing.strategy_metadata.mongodb_filter_applied = TRUE
    /\ result.stats.mongodb_filter_applied = TRUE

(***************************************************************************)
(* _rerank_articles on its own: every list of up to MaxRerankLen distinct  *)
(* stored articles, each with any relevance score and signal strength of   *)
(* the sets below, under a routing of every strategy.                      *)
(***************************************************************************)
RelScores == {0, ScoreOne \div 2, ScoreOne}

SignalStrengths == {0, 100}

DistinctIdSeqs ==
    {ids \in UNION {[1..n -> ArticleIds] : n \in 0..MaxRerankLen} :
        \A i, j \in DOMAIN ids : i # j => ids[i] # ids[j]}

ScoredArticle(id, rel, sig) ==
    [from_document(id) EXCEPT
        !.relevance_score = rel,
        !.signal_strength = IF Pool[id].sentiment # NoneVal THEN sig ELSE @]

RerankRoutings ==
    UNION {validate_and_enrich(model_validate(
               LLMOutput(st, "one", "Bullish", GoodRefined, 90)))
           : st \in QueryIntent}

InitRerank ==
    /\ store = {}
    /\ index = {}
    /\ max_filter_ids = 0
    /\ default_top_k = 1
    /\ pc = "rerank"
    /\ req = [query |-> <<>>, top_k |-> 1, sentiment_filter |-> NoneVal]
    /\ top_k = 1
    /\ routing \in RerankRoutings
    /\ mongodb_filter = EmptyFilter
    /\ filtered_count = 0
    /\ strategy_used = NoneVal
    /\ filtered_ids = <<>>
    /\ vector_results = <<>>
    /\ \E ids \in DistinctIdSeqs :
       \E rels \in [1..MaxRerankLen -> RelScores] :
       \E sigs \in [1..MaxRerankLen -> SignalStrengths] :
          full_articles =
              [i \in DOMAIN ids |-> ScoredArticle(ids[i], rels[i], sigs[i])]
    /\ reranked_articles = <<>>
    /\ final_articles = <<>>
    /\ exc = NoneVal
    /\ graph_state = initial_state
    /\ result = NoResult
    /\ calls = NoCalls
    /\ sent = <<>>
    /\ ran = {}
    /\ llm_seen = NoLLM
    /\ searches = <<>>
    /\ max_retries = DefaultMaxRetries
    /\ attempt = 1
    /\ attempts = <<>>
    /\ waits = <<>>

\* reranked_articles = self._rerank_articles(full_articles, routing)
RerankCall ==
    /\ pc = "rerank"
    /\ reranked_articles' = rerank_articles(full_articles, routing)
    /\ pc' = "reranked"
    /\ UNCHANGED <<config, llm_client, corpus, req, top_k, routing, mongodb_filter,
                   filtered_count, strategy_used, filtered_ids, vector_results,
                   full_articles, final_articles, exc, graph_state, result,
                   calls, sent, history>>

NextRerank == RerankCall

SpecRerank == InitRerank /\ [][NextRerank]_vars

\* Position of the article with this id in a list.
PosOf(articles, id) == CHOOSE i \in DOMAIN articles : articles[i].id = id

Reranked == pc \in {"reranked", "returned", "graph_end", "done"}

\* C9: the reranked list is a permutation of the input list, its
\* final_score never increases along the list, and articles of equal
\* final_score keep their relative input order.
C9_StableDescending ==
    Reranked =>
        /\ Len(reranked_articles) = Len(full_articles)
        /\ {reranked_articles[i].id : i \in DOMAIN reranked_articles}
              = {full_articles[i].id : i \in DOMAIN full_articles}
        /\ \A i \in DOMAIN reranked_articles :
              reranked_articles[i] =
                  ScoreArticle(full_articles[PosOf(full_articles,
                                     reranked_articles[i].id)], routing)
        /\ \A i, j \in DOMAIN reranked_articles :
              i < j =>
                  /\ reranked_articles[i].final_score >= reranked_articles[j].final_score
                  /\ reranked_articles[i].final_score = reranked_articles[j].final_score
                        => PosOf(full_articles, reranked_articles[i].id)
                              < PosOf(full_articles, reranked_articles[j].id)

C9_Witness ==
    /\ pc = "reranked"
    /\ Len(reranked_articles) = 3
    /\ reranked_articles[1].id # full_articles[1].id
    /\ \E i, j \in DOMAIN reranked_articles :
          /\ i < j
          /\ reranked_articles[i].final_score = reranked_articles[j].final_score

\* C10: every final_score is at most 1.0; an article with base score 1.0
\* (semantic 1.0, strategy 1.0) and signal_strength 100 gets exactly 1.0.
C10_FinalScoreCapped ==
    Reranked =>
        \A i \in DOMAIN reranked_articles :
            LET a == reranked_articles[i]
            IN  /\ a.final_score <= ScoreOne
                /\ (a.relevance_score = ScoreOne /\ a.strategy_score = ScoreOne
                    /\ a.sentiment # NoneVal /\ a.signal_strength = 100)
                      => a.final_score = ScoreOne

C10_Witness ==
    /\ pc = "reranked"
    /\ \E i \in DOMAIN reranked_articles :
          LET a == reranked_articles[i]
          IN  /\ a.relevance_score = ScoreOne
              /\ a.strategy_score = ScoreOne
              /\ a.sentiment # NoneVal
              /\ a.signal_strength = 100
              /\ apply_sentiment_boost(ScoreOne, 100) = (3 * ScoreOne) \div 2
              /\ a.final_score = ScoreOne

(***************************************************************************)
(* _calculate_strategy_score through the scoring loop of _rerank_articles: *)
(* one hydrated article, stored with its names as written or in lower      *)
(* case, under every routing the router can return for the list profiles.  *)
(***************************************************************************)
ScoreProfiles == ListProfiles \cup {"lower", "symbol"}

ScoreRoutings ==
    UNION {validate_and_enrich(model_validate(
               LLMOutput(st, p, sf, GoodRefined, 90)))
           : st \in QueryIntent, p \in ScoreProfiles,
             sf \in {NoneVal, "Bullish", "Bearish"}}

LowerAll(list) == [i \in DOMAIN list |-> Lower(list[i])]

\* The article of a document whose names were stored in lower case.
LowerCased(a) ==
    [a EXCEPT !.companies = LowerAll(@), !.symbols = LowerAll(@),
              !.sectors = LowerAll(@), !.regulators = LowerAll(@)]

ScoreArticles ==
    {ScoredArticle(id, rel, sig) :
        id \in ArticleIds, rel \in RelScores, sig \in SignalStrengths}
    \cup {LowerCased(ScoredArticle(id, rel, sig)) :
            id \in ArticleIds, rel \in RelScores, sig \in SignalStrengths}

InitScore ==
    /\ store = {}
    /\ index = {}
    /\ max_filter_ids = 0
    /\ default_top_k = 1
    /\ pc = "rerank"
    /\ req = [query |-> <<>>, top_k |-> 1, sentiment_filter |-> NoneVal]
    /\ top_k = 1
    /\ routing \in ScoreRoutings
    /\ mongodb_filter = EmptyFilter
    /\ filtered_count = 0
    /\ strategy_used = NoneVal
    /\ filtered_ids = <<>>
    /\ vector_results = <<>>
    /\ \E a \in ScoreArticles : full_articles = <<a>>
    /\ reranked_articles = <<>>
    /\ final_articles = <<>>
    /\ exc = NoneVal
    /\ graph_state = initial_state
    /\ result = NoResult
    /\ calls = NoCalls
    /\ sent = <<>>
    /\ ran = {}
    /\ llm_seen = NoLLM
    /\ searches = <<>>
    /\ max_retries = DefaultMaxRetries
    /\ attempt = 1
    /\ attempts = <<>>
    /\ waits = <<>>

SpecScore == InitScore /\ [][NextRerank]_vars

\* Some entry of one list equals, ignoring case, some entry of the other.
SomeEqualIgnoringCase(xs, ys) ==
    \E i \in DOMAIN xs : \E j \in DOMAIN ys : Lower(xs[i]) = Lower(ys[j])

\* The sentiment boost leaves the base score as it is.
NoBoost(a) == a.sentiment = NoneVal \/ a.signal_strength = 0

\* C11: under DIRECT_ENTITY routing the strategy_score of a scored article
\* is 1.0 if a routing entity equals, ignoring case, one of its company
\* names or a routing stock symbol equals, ignoring case, one of its
\* impacted-stock symbols, and 0.0 otherwise; with zero semantic similarity
\* and a symbol match the base score (the final score when nothing is
\* boosted) is 0.5.
C11_DirectEntityScore ==
    (Reranked /\ routing.strategy = "DIRECT_ENTITY") =>
        \A i \in DOMAIN reranked_articles :
            LET a == reranked_articles[i]
                company == SomeEqualIgnoringCase(routing.entities, a.companies)
                symbol == SomeEqualIgnoringCase(routing.stock_symbols, a.symbols)
            IN  /\ a.strategy_score = IF company \/ symbol THEN ScoreOne ELSE 0
                /\ (symbol /\ a.relevance_score = 0 /\ NoBoost(a))
                      => a.final_score * 2 = ScoreOne

C11_Witness ==
    /\ pc = "reranked"
    /\ routing.strategy = "DIRECT_ENTITY"
    /\ routing.entities = <<>>
    /\ routing.stock_symbols = <<SymTS>>
    /\ Len(reranked_articles) = 1
    /\ reranked_articles[1].symbols = <<Lower(SymTS)>>
    /\ reranked_articles[1].relevance_score = 0
    /\ reranked_articles[1].signal_strength = 0
    /\ reranked_articles[1].strategy_score = ScoreOne
    /\ reranked_articles[1].final_score * 2 = ScoreOne

\* The strategy score of the reranker's table for an article and a routing
\* of a strategy other than DIRECT_ENTITY, in tenths.
TableTenths(a, r) ==
    CASE r.strategy = "SECTOR_WIDE" ->
           IF SomeEqualIgnoringCase(r.sectors, a.sectors) THEN 8 ELSE 0
      [] r.strategy = "REGULATORY" ->
           IF SomeEqualIgnoringCase(r.regulators, a.regulators) THEN 10 ELSE 0
      [] r.strategy = "SENTIMENT_DRIVEN" ->
           IF a.sentiment = NoneVal \/ a.sentiment # r.sentiment_filter THEN 0
           ELSE IF SomeEqualIgnoringCase(r.sectors, a.sectors) THEN 9 ELSE 7
      [] r.strategy = "CROSS_IMPACT" -> IF a.cross_impacts THEN 8 ELSE 5
      [] OTHER -> 3

\* C12: for every strategy other than DIRECT_ENTITY the strategy_score of
\* a scored article is exactly the table value: SECTOR_WIDE 0.8 on a
\* sector match else 0.0; REGULATORY 1.0 on a regulator match else 0.0;
\* SENTIMENT_DRIVEN 0.9 on sentiment and sector match, 0.7 on sentiment
\* match alone, else 0.0; CROSS_IMPACT 0.8 with cross impacts else 0.5;
\* SEMANTIC_SEARCH and TEMPORAL 0.3.
C12_StrategyScoreTable ==
    (Reranked /\ routing.strategy # "DIRECT_ENTITY") =>
        \A i \in DOMAIN reranked_articles :
            reranked_articles[i].strategy_score * 10
                = TableTenths(reranked_articles[i], routing) * ScoreOne

C12_Witness ==
    /\ pc = "reranked"
    /\ routing.strategy = "SENTIMENT_DRIVEN"
    /\ routing.sentiment_filter = "Bullish"
    /\ routing.sectors = <<Lower(SecBk)>>
    /\ Len(reranked_articles) = 1
    /\ reranked_articles[1].id = "a4"
    /\ reranked_articles[1].sectors = <<SecBk>>
    /\ reranked_articles[1].strategy_score * 10 = 9 * ScoreOne

(***************************************************************************)
(* route_query followed by generate_mongodb_filter, called on their own:   *)
(* one query, any structured output of the sets below.                     *)
(***************************************************************************)
RouteProfiles == ListProfiles \cup {"lower", "symbol", "messy", "name", "names"}

RouteSentiments == {NoneVal, "Bullish", "", "Invalid"}

RouteRefined == {GoodRefined, <<>>, <<" ", " ">>, <<" ", "r", " ">>}

\* Confidence, in hundredths.
RouteConfidences == {0 - 10, 0, 90, 100, 150}

RouteOutputs ==
    {LLMOutput(st, p, sf, rq, cf) :
        st \in QueryIntent, p \in RouteProfiles, sf \in RouteSentiments,
        rq \in RouteRefined, cf \in RouteConfidences}

InitRoute ==
    /\ store = {}
    /\ index = {}
    /\ max_filter_ids = 0
    /\ default_top_k = 1
    /\ pc = "route"
    /\ req \in {[query |-> q, top_k |-> 1, sentiment_filter |-> NoneVal] :
                   q \in Queries \ {<<>>}}
    /\ top_k = 1
    /\ routing = NoneVal
    /\ mongodb_filter = EmptyFilter
    /\ filtered_count = 0
    /\ strategy_used = NoneVal
    /\ filtered_ids = <<>>
    /\ vector_results = <<>>
    /\ full_articles = <<>>
    /\ reranked_articles = <<>>
    /\ final_articles = <<>>
    /\ exc = NoneVal
    /\ graph_state = initial_state
    /\ result = NoResult
    /\ calls = NoCalls
    /\ sent = <<>>
    /\ ran = {}
    /\ llm_seen = NoLLM
    /\ searches = <<>>
    /\ max_retries = DefaultMaxRetries
    /\ attempt = 1
    /\ attempts = <<>>
    /\ waits = <<>>

\* One call of generate_mongodb_filter as the log keeps it.
Generated(r, f) == [kind |-> "generated", filter |-> f, routing |-> r]

\* Variant: a filter kept from the previous call is returned again.
GenerateFilterMemo ==
    /\ pc = "compile"
    /\ mongodb_filter' = IF sent # <<>> THEN mongodb_filter
                         ELSE generate_mongodb_filter(routing)
    /\ sent' = Append(sent, Generated(routing, mongodb_filter'))
    /\ pc' = "generated"
    /\ UNCHANGED <<config, llm_client, corpus, req, top_k, routing, filtered_count,
                   strategy_used, filtered_ids, vector_results, ranked, exc,
                   graph_state, result, calls, history>>

\* mongodb_filter = self.query_router.generate_mongodb_filter(routing)
GenerateFilter ==
    /\ pc = "compile"
    /\ mongodb_filter' = generate_mongodb_filter(routing)
    /\ sent' = Append(sent, Generated(routing, mongodb_filter'))
    /\ pc' = "generated"
    /\ UNCHANGED <<config, llm_client, corpus, req, top_k, routing, filtered_count,
                   strategy_used, filtered_ids, vector_results, ranked, exc,
                   graph_state, result, calls, history>>

NextRoute ==
    \/ RouteEmpty
    \/ RouteLLMFail
    \/ \E out \in RouteOutputs : RouteSchemaReject(out)
    \/ \E out \in RouteOutputs : RouteOK(out)
    \/ GenerateFilter

SpecRoute == InitRoute /\ [][NextRoute]_vars

\* route_query has returned a QueryRouting.
Routed == llm_seen.outcome = "ok"

\* No entry is empty or has leading or trailing whitespace, and no two
\* entries are equal ignoring case.
CleanList(list) ==
    /\ \A i \in DOMAIN list :
          /\ list[i] # <<>>
          /\ Head(list[i]) # " "
          /\ list[i][Len(list[i])] # " "
    /\ \A i, j \in DOMAIN list : i # j => Lower(list[i]) # Lower(list[j])

\* C13: in a QueryRouting returned by route_query the four lists have no
\* empty entry, no entry with leading or trailing whitespace and no two
\* entries equal ignoring case; every stock symbol is uppercase;
\* refined_query has at least 3 characters after trimming; confidence is
\* in [0,1].
C13_RoutingListsClean ==
    Routed =>
        /\ CleanList(routing.entities)
        /\ CleanList(routing.stock_symbols)
        /\ CleanList(routing.sectors)
        /\ CleanList(routing.regulators)
        /\ \A i \in DOMAIN routing.stock_symbols :
              routing.stock_symbols[i] = Upper(routing.stock_symbols[i])
        /\ Len(Strip(routing.refined_query)) >= 3
        /\ routing.confidence >= 0 /\ routing.confidence <= 100

C13_Witness ==
    /\ pc = "compile"
    /\ Routed
    /\ llm_seen.output.entities =
          <<<<>>, <<" ">>, <<" ", "T", "s", " ">>, Lower(CoTs), CoHb>>
    /\ routing.entities = <<CoTs, CoHb>>
    /\ Range(routing.stock_symbols) = {SymTS, SymHB}
    /\ routing.confidence = 100

\* The trimmed entries of a list, without the blank ones.
TrimmedEntries(list) ==
    SelectSeq([i \in DOMAIN list |-> Strip(list[i])], LAMBDA e : e # <<>>)

\* The entries that equal, ignoring case, no earlier entry, in list order.
FirstOccurrences(list) ==
    LET first(i) == \A j \in 1..(i - 1) : Lower(list[j]) # Lower(list[i])
        F[i \in 0..Len(list)] ==
            IF i = 0 THEN <<>>
            ELSE IF first(i) THEN Append(F[i - 1], list[i]) ELSE F[i - 1]
    IN  F[Len(list)]

UpperAll(list) == [i \in DOMAIN list |-> Upper(list[i])]

\* C14: each list of the returned QueryRouting is the LLM's list with
\* every later case-insensitive duplicate removed, the first occurrences
\* in their original relative order (stock symbols uppercased).
C14_FirstSeenOrder ==
    Routed =>
        /\ routing.entities = FirstOccurrences(TrimmedEntries(llm_seen.output.entities))
        /\ routing.sectors = FirstOccurrences(TrimmedEntries(llm_seen.output.sectors))
        /\ routing.regulators =
              FirstOccurrences(TrimmedEntries(llm_seen.output.regulators))
        /\ routing.stock_symbols =
              UpperAll(FirstOccurrences(TrimmedEntries(llm_seen.output.stock_symbols)))

\* The error kinds of the caller-fault category.
ValidationKinds == {"ValueError", "ValidationError"}

\* C15: an output whose sentiment_filter is present but not Bullish,
\* Bearish or Neutral makes route_query fail with the validation error
\* kind, returning no QueryRouting.
C15_BadSentimentIsValidationError ==
    (pc # "route" /\ llm_seen.outcome # "none" /\ llm_seen.outcome # "failed"
     /\ llm_seen.sentiment_filter # NoneVal
     /\ llm_seen.sentiment_filter \notin valid_sentiments) =>
        /\ exc \in ValidationKinds
        /\ llm_seen.outcome = "rejected"

\* The output is acceptable but for a refined_query that is empty after
\* trimming.
BlankRefinedOnly(out) ==
    /\ Strip(out.refined_query) = <<>>
    /\ out.strategy \in QueryIntent
    /\ (out.sentiment_filter # NoneVal => out.sentiment_filter \in valid_sentiments)
    /\ out.confidence >= 0 /\ out.confidence <= 100

\* C16: when the output's refined_query is empty after trimming,
\* route_query returns a QueryRouting whose refined_query is the first
\* deduplicated entity if there is one and "financial news" otherwise.
C16_BlankRefinedDefaulted ==
    (pc # "route" /\ llm_seen.outcome \in {"ok", "rejected"}
     /\ BlankRefinedOnly(llm_seen.output)) =>
        /\ llm_seen.outcome = "ok"
        /\ exc = NoneVal
        /\ routing.refined_query =
              IF routing.entities # <<>> THEN routing.entities[1]
              ELSE FinancialNews

(***************************************************************************)
(* generate_mongodb_filter called up to MaxFilterCalls times in a row, on  *)
(* any routings the router returns for the list profiles.                  *)
(***************************************************************************)
FilterRoutings ==
    UNION {validate_and_enrich(model_validate(
               LLMOutput(st, p, "Bullish", GoodRefined, 90)))
           : st \in QueryIntent, p \in {"one", "many"}}

InitFilter ==
    /\ store = {}
    /\ index = {}
    /\ max_filter_ids = 0
    /\ default_top_k = 1
    /\ pc = "compile"
    /\ req = [query |-> <<>>, top_k |-> 1, sentiment_filter |-> NoneVal]
    /\ top_k = 1
    /\ routing \in FilterRoutings
    /\ mongodb_filter = EmptyFilter
    /\ filtered_count = 0
    /\ strategy_used = NoneVal
    /\ filtered_ids = <<>>
    /\ vector_results = <<>>
    /\ full_articles = <<>>
    /\ reranked_articles = <<>>
    /\ final_articles = <<>>
    /\ exc = NoneVal
    /\ graph_state = initial_state
    /\ result = NoResult
    /\ calls = NoCalls
    /\ sent = <<>>
    /\ ran = {}
    /\ llm_seen = NoLLM
    /\ searches = <<>>
    /\ max_retries = DefaultMaxRetries
    /\ attempt = 1
    /\ attempts = <<>>
    /\ waits = <<>>

\* The next query's routing reaches the filter generator.
NextFilterCall(r) ==
    /\ pc = "generated"
    /\ Len(sent) < MaxFilterCalls
    /\ routing' = r
    /\ pc' = "compile"
    /\ UNCHANGED <<config, llm_client, corpus, req, top_k, mongodb_filter, filtered_count,
                   strategy_used, filtered_ids, vector_results, ranked, exc,
                   graph_state, result, calls, sent, history>>

NextFilter ==
    \/ GenerateFilter
    \/ \E r \in FilterRoutings : NextFilterCall(r)

SpecFilter == InitFilter /\ [][NextFilter]_vars

\* Every logged call returned the filter of its own argument, so calls
\* given equal routings returned equal filters.
FilterLogFunctional ==
    /\ \A i \in DOMAIN sent :
          sent[i].filter = generate_mongodb_filter(sent[i].routing)
    /\ \A i, j \in DOMAIN sent :
          sent[i].routing = sent[j].routing => sent[i].filter = sent[j].filter

\* A call of generate_mongodb_filter leaves its argument, the store, the
\* vector index and the call counters of every collaborator as they were.
FilterCallPure ==
    (pc = "compile" /\ pc' = "generated") =>
        /\ routing' = routing
        /\ calls' = calls
        /\ store' = store /\ index' = index
        /\ llm_seen' = llm_seen

OneOrMany(key, list) ==
    IF Len(list) = 1 THEN [k \in {key} |-> EqClause(list[1])]
    ELSE [k \in {key} |-> InClause(list)]

\* Symbols when there is any, else company names, else no filter.
SymbolsThenNames(r) ==
    IF Len(r.stock_symbols) >= 1 THEN OneOrMany(KSymbol, r.stock_symbols)
    ELSE IF Len(r.entities) >= 1 THEN OneOrMany(KCompanies, r.entities)
         ELSE EmptyFilter

\* generate_mongodb_filter has returned for the routing of this query.
FilterGenerated == pc = "generated" /\ sent # <<>>

\* C18: for DIRECT_ENTITY the compiled filter is an equality on the one
\* stock symbol or a membership over the two or more, entities being
\* ignored when a symbol is present; else the same over company names;
\* else the empty filter.  For TEMPORAL the filter is the one compiled
\* for DIRECT_ENTITY from the same symbols and entities.
C18_EntityFilterPrecedence ==
    FilterGenerated =>
        /\ routing.strategy \in {"DIRECT_ENTITY", "TEMPORAL"}
              => mongodb_filter = SymbolsThenNames(routing)
        /\ generate_mongodb_filter([routing EXCEPT !.strategy = "TEMPORAL"])
              = generate_mongodb_filter([routing EXCEPT !.strategy = "DIRECT_ENTITY"])

C18_Witness ==
    /\ FilterGenerated
    /\ routing.strategy = "TEMPORAL"
    /\ Len(routing.stock_symbols) = 2
    /\ routing.entities # <<>>
    /\ mongodb_filter = [k \in {KSymbol} |-> InClause(routing.stock_symbols)]

\* The list clauses of a filter, at top level and inside "$and", as
\* <<field, clause>> pairs.
ListClauses(f) ==
    {<<k, f[k]>> : k \in DOMAIN f \ {KAnd, KSentiment}}
    \cup (IF KAnd \in DOMAIN f
          THEN UNION {{<<k, f[KAnd].subs[i][k]>> :
                          k \in DOMAIN f[KAnd].subs[i] \ {KSentiment}}
                      : i \in DOMAIN f[KAnd].subs}
          ELSE {})

\* The list field a strategy compiles into its filter.
DesignatedField(r) ==
    CASE r.strategy \in {"SECTOR_WIDE", "CROSS_IMPACT", "SENTIMENT_DRIVEN"} ->
             [key |-> KSectors, list |-> r.sectors]
      [] OTHER -> [key |-> KRegulators, list |-> r.regulators]

\* C19: for SECTOR_WIDE, CROSS_IMPACT, REGULATORY and SENTIMENT_DRIVEN the
\* only list clause of the compiled filter is over the designated,
\* non-empty list: an equality on the sole element or a membership over
\* the whole list of two or more; SENTIMENT_DRIVEN has it only beside the
\* sentiment equality; the filter is empty when the designated list (for
\* SENTIMENT_DRIVEN the sentiment_filter) is absent; and no filter of any
\* strategy has a membership over fewer than two values.
C19_ListClauses ==
    FilterGenerated =>
        /\ \A c \in ListClauses(mongodb_filter) :
              c[2].op = "in" => Len(c[2].vals) >= 2
        /\ routing.strategy \in {"SECTOR_WIDE", "CROSS_IMPACT", "REGULATORY"} =>
              LET d == DesignatedField(routing)
              IN  mongodb_filter =
                      IF d.list = <<>> THEN EmptyFilter
                      ELSE OneOrMany(d.key, d.list)
        /\ routing.strategy = "SENTIMENT_DRIVEN" =>
              LET d == DesignatedField(routing)
                  sentiment == [k \in {KSentiment} |->
                                   EqClause(routing.sentiment_filter)]
              IN  mongodb_filter =
                      IF routing.sentiment_filter = NoneVal THEN EmptyFilter
                      ELSE IF d.list = <<>> THEN sentiment
                           ELSE [k \in {KAnd} |->
                                   AndClause(<<sentiment,
                                               OneOrMany(d.key, d.list)>>)]

C19_Witness ==
    /\ FilterGenerated
    /\ routing.strategy = "SENTIMENT_DRIVEN"
    /\ routing.sentiment_filter = "Bullish"
    /\ llm_seen.outcome = "ok"
    /\ Len(llm_seen.output.sectors) = 4
    /\ routing.sectors = <<SecIt, SecBk>>
    /\ ListClauses(mongodb_filter) = {<<KSectors, InClause(<<SecIt, SecBk>>)>>}

\* C20: under SEMANTIC_SEARCH routing without a sentiment override the
\* compiled filter is empty whatever the routed lists hold, filtered_count
\* is the number of stored documents, the branch is vector_search_first
\* when that number exceeds max_filter_ids, mongo_filter_first when it is
\* between 1 and max_filter_ids, vector_search_fallback when the store is
\* empty, and the metadata reports mongodb_filter_applied = False.
C20_SemanticSearchByCorpusSize ==
    (ran # {} /\ routing.strategy = "SEMANTIC_SEARCH"
     /\ ~Truthy(req.sentiment_filter)) =>
        LET n == Cardinality(store)
        IN  /\ mongodb_filter = EmptyFilter
            /\ \A i \in DOMAIN sent :
                  sent[i].kind = "compiled" => sent[i].filter = EmptyFilter
            /\ filtered_count = n
            /\ (n > max_filter_ids /\ n > 0) => ran = {"vector_search_first"}
            /\ (0 < n /\ n <= max_filter_ids) => ran = {"mongo_filter_first"}
            /\ ("vector_search_fallback" \in ran) <=> (n = 0)
            /\ QuerySucceeded =>
                  routing.strategy_metadata.mongodb_filter_applied = FALSE

C20_Witness ==
    /\ pc = "done"
    /\ strategy_used # NoneVal
    /\ routing.strategy = "SEMANTIC_SEARCH"
    /\ routing.stock_symbols # <<>>
    /\ routing.sentiment_filter = "Bullish"
    /\ ~Truthy(req.sentiment_filter)
    /\ Cardinality(store) = 3
    /\ max_filter_ids = 2
    /\ ran = {"vector_search_first"}
    /\ result.stats.filtered_count = 3
    /\ result.stats.mongodb_filter_applied = FALSE

(***************************************************************************)
(* GroqLLMClient.generate_structured_output and _retry_with_backoff: one   *)
(* call of the LLM capability, one action per invocation of the model.     *)
(***************************************************************************)
RetryOutputs ==
    {LLMOutput(st, "one", NoneVal, GoodRefined, 90) :
        st \in {"DIRECT_ENTITY", "REGULATORY", "SEMANTIC_SEARCH"}}

\* The exceptions an invocation can raise, as the retry loop tells them
\* apart: "rate limit" or "429" in str(e).lower(), or anything else.
FailureKinds == {"rate_limit", "other"}

InitRetry ==
    /\ store = {}
    /\ index = {}
    /\ max_filter_ids = 0
    /\ default_top_k = 1
    /\ pc = "llm_attempt"
    /\ req = [query |-> <<>>, top_k |-> 1, sentiment_filter |-> NoneVal]
    /\ top_k = 1
    /\ routing = NoneVal
    /\ mongodb_filter = EmptyFilter
    /\ filtered_count = 0
    /\ strategy_used = NoneVal
    /\ filtered_ids = <<>>
    /\ vector_results = <<>>
    /\ full_articles = <<>>
    /\ reranked_articles = <<>>
    /\ final_articles = <<>>
    /\ exc = NoneVal
    /\ graph_state = initial_state
    /\ result = NoResult
    /\ calls = NoCalls
    /\ sent = <<>>
    /\ ran = {}
    /\ llm_seen = NoLLM
    /\ searches = <<>>
    /\ max_retries \in 0..MaxRetries
    /\ attempt = 1
    /\ attempts = <<>>
    /\ waits = <<>>

\* wait_time = (2 ** attempt) * 2 on a rate limit, 2 ** attempt otherwise
wait_time(kind, n) == IF kind = "rate_limit" THEN (2 ^ n) * 2 ELSE 2 ^ n

\* return func(*args, **kwargs): the invocation succeeds and its value is
\* returned through generate_structured_output.
AttemptSucceeds(out) ==
    /\ pc = "llm_attempt"
    /\ attempt <= max_retries
    /\ attempts' = Append(attempts, "ok")
    /\ calls' = [calls EXCEPT !.llm = @ + 1]
    /\ llm_seen' = [outcome |-> "ok", sentiment_filter |-> out.sentiment_filter,
                   output |-> out]
    /\ pc' = "llm_returned"
    /\ UNCHANGED <<config, corpus, req, top_k, locals, exc, graph_state, result,
                   sent, ran, searches, max_retries, attempt, waits>>

\* except Exception: raise LLMServiceError on the last attempt, otherwise
\* sleep and go round the loop.
AttemptFails(kind) ==
    /\ pc = "llm_attempt"
    /\ attempt <= max_retries
    /\ attempts' = Append(attempts, kind)
    /\ calls' = [calls EXCEPT !.llm = @ + 1]
    /\ IF attempt = max_retries
       THEN /\ exc' = "LLMServiceError"
            /\ llm_seen' = [outcome |-> "failed", sentiment_filter |-> NoneVal,
                           output |-> NoneVal]
            /\ pc' = "llm_raised"
            /\ UNCHANGED <<attempt, waits>>
       ELSE /\ waits' = Append(waits, wait_time(kind, attempt))
            /\ attempt' = attempt + 1
            /\ UNCHANGED <<exc, llm_seen, pc>>
    /\ UNCHANGED <<config, corpus, req, top_k, locals, graph_state, result,
                   sent, ran, searches, max_retries>>

\* range(1, self.max_retries + 1) is exhausted without a return or a raise:
\* _retry_with_backoff falls off its end and returns None, which
\* generate_structured_output returns to its caller.
LoopExhausted ==
    /\ pc = "llm_attempt"
    /\ attempt > max_retries
    /\ llm_seen' = [outcome |-> "none_returned", sentiment_filter |-> NoneVal,
                   output |-> NoneVal]
    /\ pc' = "llm_returned"
    /\ UNCHANGED <<config, llm_client, corpus, req, top_k, locals, exc,
                   graph_state, result, calls, sent, ran, searches>>

NextRetry ==
    \/ \E out \in RetryOutputs : AttemptSucceeds(out)
    \/ \E kind \in FailureKinds : AttemptFails(kind)
    \/ LoopExhausted

SpecRetry == InitRetry /\ [][NextRetry]_vars

LLMCallEnded == pc \in {"llm_returned", "llm_raised"}

AllAttemptsFailed == \A i \in DOMAIN attempts : attempts[i] # "ok"

\* C21: for every retry budget, a call of the LLM capability invokes the
\* model at most max_retries times, returns the value of the first
\* successful attempt without a further attempt, raises LLMServiceError
\* exactly when every attempt failed, never returns without a generated
\* value, and waits 2^n after failed attempt n, twice that on a rate limit.
C21_RetryContract ==
    /\ Len(attempts) <= max_retries
    /\ calls.llm = Len(attempts)
    /\ \A i \in DOMAIN attempts : attempts[i] = "ok" => i = Len(attempts)
    /\ LLMCallEnded =>
          /\ (pc = "llm_raised") <=> AllAttemptsFailed
          /\ pc = "llm_raised" => exc = "LLMServiceError"
          /\ pc = "llm_returned" =>
                /\ llm_seen.outcome = "ok"
                /\ llm_seen.output \in RetryOutputs
    /\ \A n \in DOMAIN waits :
          waits[n] = IF attempts[n] = "rate_limit" THEN 2 * (2 ^ n) ELSE 2 ^ n

\* The same contract for a budget of at least one attempt.
RetryContractPositiveBudget == max_retries >= 1 => C21_RetryContract

(***************************************************************************)
(* The three execution branches of process_query.                          *)
(***************************************************************************)
\* The ids of the stored records that satisfy the final filter.
MatchingIds == {id \in store : Matches(id, mongodb_filter)}

ArticleIdsOf(articles) == {articles[i].id : i \in DOMAIN articles}

\* C22: in mongo_filter_first the one vector search is search_by_ids, given
\* exactly the ids matching the final filter and asked for 2 * top_k; its
\* candidates all belong to that id set, there are at most
\* min(2 * top_k, size of the id set) of them, and every article returned
\* on this branch satisfies the final filter.
C22_RestrictedSearch ==
    (strategy_used = "mongo_filter_first" /\ searches # <<>>) =>
        /\ Len(searches) = 1
        /\ searches[1].kind = "search_by_ids"
        /\ Range(searches[1].article_ids) = MatchingIds
        /\ Len(searches[1].article_ids) = Cardinality(MatchingIds)
        /\ searches[1].top_k = 2 * top_k
        /\ searches[1].text = routing.refined_query
        /\ Range(ResultIds(vector_results)) \subseteq MatchingIds
        /\ Len(vector_results) <= Min(2 * top_k, Cardinality(MatchingIds))
        /\ ArticleIdsOf(final_articles) \subseteq MatchingIds
        /\ pc = "done" => ArticleIdsOf(result.articles) \subseteq MatchingIds

C22_Witness ==
    /\ pc = "done"
    /\ strategy_used = "mongo_filter_first"
    /\ mongodb_filter # EmptyFilter
    /\ Cardinality(MatchingIds) = 2
    /\ Cardinality(index) = 4
    /\ top_k = 2
    /\ Len(vector_results) = 2
    /\ Len(result.articles) = 2

\* The filter of the last count_documents call of the query.
CountedFilters ==
    SelectSeq(sent, LAMBDA e : e.kind \in {"compiled", "relaxed"})

LastCountedFilter == CountedFilters[Len(CountedFilters)].filter

Validated == pc \in {"hydrate", "returned", "graph_end", "done"}

\* C23: in vector_search_first the one vector search is unrestricted and
\* asks for 5 * top_k; after validation the candidate list is exactly the
\* first 2 * top_k, in vector-rank order, of the candidates whose ids
\* satisfy the final filter in the store, and the validation leaves the
\* final filter (and so the metadata's mongodb_filter_applied) as counted.
C23_ValidatedCandidates ==
    (strategy_used = "vector_search_first") =>
        /\ searches =
              <<Searched("search", routing.refined_query, <<>>, 5 * top_k)>>
        /\ mongodb_filter = LastCountedFilter
        /\ KId \notin DOMAIN mongodb_filter
        /\ Validated =>
              /\ vector_results =
                    Take(KeepValid(search(index, 5 * top_k), MatchingIds),
                         2 * top_k)
              /\ Range(ResultIds(vector_results)) \subseteq MatchingIds
              /\ Len(vector_results) <= 2 * top_k
        /\ QuerySucceeded =>
              routing.strategy_metadata.mongodb_filter_applied =
                  (LastCountedFilter # EmptyFilter)

C23_Witness ==
    /\ pc = "done"
    /\ strategy_used = "vector_search_first"
    /\ mongodb_filter # EmptyFilter
    /\ top_k = 1
    /\ Cardinality(index) = 4
    /\ Cardinality(MatchingIds) = 3
    /\ Len(vector_results) = 2
    /\ result.stats.mongodb_filter_applied = TRUE

\* The ids of the stored records whose sentiment classification is s.
WithSentiment(s) == {id \in store : Pool[id].sentiment = s}

\* C24: in vector_search_fallback the one vector search embeds
\* routing.refined_query, is unrestricted and asks for 2 * top_k; without
\* an override every candidate is kept whatever the compiled filter is;
\* with an override the candidates kept are those whose stored sentiment
\* classification is the override, in vector-rank order, at most 2 * top_k.
C24_FallbackCandidates ==
    (strategy_used = "vector_search_fallback") =>
        /\ searches =
              <<Searched("search", routing.refined_query, <<>>, 2 * top_k)>>
        /\ (Validated /\ ~Truthy(req.sentiment_filter)) =>
              vector_results = search(index, 2 * top_k)
        /\ (Validated /\ Truthy(req.sentiment_filter)) =>
              /\ vector_results =
                    Take(KeepValid(search(index, 2 * top_k),
                                   WithSentiment(req.sentiment_filter)),
                         2 * top_k)
              /\ \A i \in DOMAIN vector_results :
                    /\ vector_results[i].article_id \in store
                    /\ Pool[vector_results[i].article_id].sentiment =
                          req.sentiment_filter
        /\ Len(vector_results) <= 2 * top_k

C24_Witness ==
    /\ pc = "done"
    /\ strategy_used = "vector_search_fallback"
    /\ ~Truthy(req.sentiment_filter)
    /\ mongodb_filter # EmptyFilter
    /\ top_k = 1
    /\ Cardinality(index) = 3
    /\ Len(vector_results) = 2
    /\ Len(result.articles) = 1

\* Calls this query has made to the structured store: counts, id lookups
\* and validations, and the hydration fetch.
StoreCalls == calls.count + calls.find + calls.hydrate

\* C25 as claimed: every successful process_query makes 2 or 3 store calls
\* and 1 or 2 vector searches.
C25_TwoOrThreeStoreCalls ==
    QuerySucceeded =>
        /\ StoreCalls \in {2, 3}
        /\ calls.search \in {1, 2}

\* C25 amended: every successful process_query makes between 1 and 4 store
\* calls (one count, a second count exactly when an override is present and
\* the first count is zero, one id lookup or validation except on the
\* fallback branch without override, one hydration fetch exactly when a
\* candidate survives) and 1 or 2 vector searches.
C25_OneToFourStoreCalls ==
    QuerySucceeded =>
        /\ StoreCalls \in 1..4
        /\ calls.search \in {1, 2}
        /\ calls.count =
              IF Truthy(req.sentiment_filter)
                 /\ count_documents(store, sent[1].filter) = 0
              THEN 2 ELSE 1
        /\ calls.find =
              IF strategy_used = "vector_search_fallback"
                 /\ ~Truthy(req.sentiment_filter)
              THEN 0 ELSE 1
        /\ calls.hydrate = IF vector_results = <<>> THEN 0 ELSE 1

C25_Witness ==
    /\ pc = "done"
    /\ strategy_used = "mongo_filter_first"
    /\ Truthy(req.sentiment_filter)
    /\ calls.count = 2
    /\ StoreCalls = 4
    /\ calls.search = 1

\* A successful query that made a single store call.
OneStoreCall == QuerySucceeded /\ StoreCalls = 1

\* C26: every vector candidate has similarity = 1 - distance with
\* similarity in [0, 1], and the relevance_score and final_score of every
\* article are never negative.
C26_SimilarityInUnitInterval ==
    /\ \A i \in DOMAIN vector_results :
          /\ vector_results[i].similarity =
                ScoreOne - vector_results[i].distance * (ScoreOne \div 10)
          /\ 0 <= vector_results[i].similarity
          /\ vector_results[i].similarity <= ScoreOne
    /\ \A i \in DOMAIN full_articles : full_articles[i].relevance_score >= 0
    /\ \A i \in DOMAIN final_articles : final_articles[i].final_score >= 0

\* A returned article whose final_score is negative.
NegativeFinalScore ==
    \E i \in DOMAIN final_articles : final_articles[i].final_score < 0

HaveSentiment(articles, s) ==
    \A i \in DOMAIN articles :
        /\ articles[i].id \in store
        /\ Pool[articles[i].id].sentiment = s
        /\ articles[i].sentiment = s

\* C27: with the store unchanged during the query, when process_query is
\* called with a sentiment override s every article it returns has stored
\* sentiment classification s, whichever branch ran and whatever the LLM
\* routing produced.
C27_OverrideSentimentReturned ==
    (QuerySucceeded /\ Truthy(req.sentiment_filter)) =>
        /\ HaveSentiment(final_articles, req.sentiment_filter)
        /\ pc = "done" => HaveSentiment(result.articles, req.sentiment_filter)

C27_Witness ==
    /\ pc = "done"
    /\ strategy_used = "vector_search_first"
    /\ req.sentiment_filter = "Bearish"
    /\ llm_seen.sentiment_filter = "Bullish"
    /\ Cardinality(store) = 4
    /\ Len(result.articles) = 1

\* C28: with the store unchanged during the query, when an override is
\* present and process_query takes vector_search_fallback, no stored record
\* has the override's sentiment, the post-filter removes every candidate,
\* the returned list is empty and vector_candidates is 0.
C28_OverrideFallbackEmpty ==
    (strategy_used = "vector_search_fallback" /\ Truthy(req.sentiment_filter)) =>
        /\ WithSentiment(req.sentiment_filter) = {}
        /\ Validated => vector_results = <<>>
        /\ QuerySucceeded =>
              /\ final_articles = <<>>
              /\ routing.strategy_metadata.vector_candidates = 0
        /\ pc = "done" =>
              /\ result.articles = <<>>
              /\ result.stats.vector_candidates = 0

C28_Witness ==
    /\ pc = "done"
    /\ strategy_used = "vector_search_fallback"
    /\ req.sentiment_filter = "Bearish"
    /\ Cardinality(index) = 3
    /\ searches # <<>>
    /\ calls.find = 1
    /\ calls.count = 2
    /\ result.articles = <<>>

(***************************************************************************)
(* process_query running while the ingestion pipeline stores an article:   *)
(* IndexingNode.process interleaved between the count of the query and     *)
(* the first request of its branch.                                        *)
(***************************************************************************)
ConcOutputs ==
    {LLMOutput(st, "one", NoneVal, GoodRefined, 90) :
        st \in {"DIRECT_ENTITY", "SECTOR_WIDE", "SEMANTIC_SEARCH"}}

\* process_query after route_query has returned, on any stored corpus.
InitConc ==
    /\ store \in SUBSET ArticleIds
    /\ index = store
    /\ max_filter_ids \in 0..MaxThreshold
    /\ default_top_k \in 1..MaxTopK
    /\ pc = "compile"
    /\ req \in {[query |-> q, top_k |-> 1, sentiment_filter |-> sf] :
                   q \in Queries \ {<<>>, <<" ">>},
                   sf \in {NoneVal, "Bullish"}}
    /\ top_k = default_top_k
    /\ \E out \in ConcOutputs :
          /\ routing \in validate_and_enrich(model_validate(out))
          /\ llm_seen = [outcome |-> "ok",
                         sentiment_filter |-> out.sentiment_filter,
                         output |-> out]
    /\ mongodb_filter = EmptyFilter
    /\ filtered_count = 0
    /\ strategy_used = NoneVal
    /\ filtered_ids = <<>>
    /\ vector_results = <<>>
    /\ full_articles = <<>>
    /\ reranked_articles = <<>>
    /\ final_articles = <<>>
    /\ exc = NoneVal
    /\ graph_state = initial_state
    /\ result = NoResult
    /\ calls = [NoCalls EXCEPT !.llm = 1]
    /\ sent = <<>>
    /\ ran = {}
    /\ searches = <<>>
    /\ max_retries = DefaultMaxRetries
    /\ attempt = 1
    /\ attempts = <<>>
    /\ waits = <<>>

\* IndexingNode.process for a new article, run by another request after
\* this query's count_documents and before the first request of its branch.
IngestDuringQuery(id) ==
    /\ pc \in {"counted", "branch"}
    /\ id \notin store
    /\ store' = store \cup {id}
    /\ index' = index \cup {id}
    /\ UNCHANGED <<config, llm_client, pc, req, top_k, locals, exc, graph_state,
                   result, calls, sent, history>>

NextConc ==
    \/ CompileAndCount
    \/ Relax
    \/ \E id \in ArticleIds : IngestDuringQuery(id)
    \/ FallbackSearch
    \/ FallbackPostFilter
    \/ MongoFindIds
    \/ MongoSearchByIds
    \/ VectorFirstSearch
    \/ VectorFirstValidate
    \/ HydrateAndRank

SpecConc == InitConc /\ [][NextConc]_vars

\* C29: in mongo_filter_first the id set passed to the restricted vector
\* search has exactly filtered_count elements and never more than
\* max_filter_ids, also when an ingestion interleaves between the count and
\* the id fetch.
C29_IdSetMatchesCount ==
    (strategy_used = "mongo_filter_first") =>
        /\ Len(filtered_ids) = filtered_count
        /\ Len(filtered_ids) <= max_filter_ids
        /\ \A i \in DOMAIN searches :
              /\ Len(searches[i].article_ids) = filtered_count
              /\ Len(searches[i].article_ids) <= max_filter_ids

\* C30: after a process_query that took vector_search_fallback, the
\* strategy_metadata the caller sees records fallback_triggered = True,
\* mongodb_filter_applied = False and filtered_count = 0.
C30_FallbackMetadataVisible ==
    (QuerySucceeded /\ strategy_used = "vector_search_fallback") =>
        LET meta == routing.strategy_metadata
        IN  /\ "fallback_triggered" \in DOMAIN meta
            /\ meta.fallback_triggered = TRUE
            /\ meta.mongodb_filter_applied = FALSE
            /\ meta.filtered_count = 0

\* A fallback query whose returned metadata reports a filter as applied.
FallbackReportsFilterApplied ==
    /\ QuerySucceeded
    /\ strategy_used = "vector_search_fallback"
    /\ routing.strategy_metadata.mongodb_filter_applied = TRUE

====
